---- MODULE Spec2Model ----
(***************************************************************************)
(* Model of the constraint-validation engine of iso20022.go: the primitive *)
(* constraints, the Validate methods of the pacs.008.001.08 message tree   *)
(* and of the choice structures, and the ValidationErrors aggregation.     *)
(*                                                                         *)
(* Representation.                                                         *)
(*   - A Go string is a sequence of characters, each a string naming one   *)
(*     character; len() is the number of bytes (GoLen).                    *)
(*   - A text produced by fmt.Sprintf / strings.Join is a sequence of      *)
(*     tokens: every literal segment of a format is one token, every       *)
(*     %s / %d argument contributes its own tokens.                        *)
(*   - A pointer is a sequence of length 0 (nil) or 1 (the pointee).       *)
(*   - An error is a record [IsNil, Errs]; a primitive's error holds at    *)
(*     most one ValidationError, a Validate method's error a               *)
(*     ValidationErrors list.                                              *)
(***************************************************************************)
EXTENDS Integers, Sequences, FiniteSets, TLC

VARIABLES subject, op, ret, calls, text, passed, compiled, trees, pc, frames, results, wire, sent

\* the variables of a caller that validates one tree
callerVars == <<subject, op, ret, calls, text, passed, compiled>>
\* the variables of the goroutines that validate their trees concurrently
goroutineVars == <<trees, pc, frames, results>>

\* the variables of a caller that sends a tree through the codec: the wire
\* form it holds and the tree it serialized
codecVars == <<wire, sent>>

vars == <<subject, op, ret, calls, text, passed, compiled, trees, pc, frames, results, wire, sent>>

(***************************************************************************)
(* Bounds of the model.                                                    *)
(***************************************************************************)
\* largest number of transactions in a CreditTransferTransactionInfo slice
MaxTx == 3
\* largest number of Validate calls on one tree
MaxCalls == 2
\* largest number of characters of a generated currency code
MaxCodeLen == 3
\* number of goroutines that validate concurrently
NumGoroutines == 2

(***************************************************************************)
(* Go strings.                                                             *)
(***************************************************************************)
Upper == {"A", "B", "C", "D", "E", "F", "G", "H", "I", "J", "K", "L", "M",
          "N", "O", "P", "Q", "R", "S", "T", "U", "V", "W", "X", "Y", "Z"}
Lower == {"a", "b", "c", "d", "e", "f", "g", "h", "i", "j", "k", "l", "m",
          "n", "o", "p", "q", "r", "s", "t", "u", "v", "w", "x", "y", "z"}
Digit == {"0", "1", "2", "3", "4", "5", "6", "7", "8", "9"}
\* characters whose UTF-8 encoding takes two bytes
TwoByte == {"e_acute", "u_umlaut", "n_tilde"}
\* characters whose UTF-8 encoding takes three bytes (U+FFFD, the Unicode
\* replacement character)
ThreeByte == {"u_fffd"}

\* number of bytes of the UTF-8 encoding of one character
ByteWidth(c) == IF c \in ThreeByte THEN 3 ELSE IF c \in TwoByte THEN 2 ELSE 1

\* the builtin len() of a string: its length in bytes, one per character,
\* one more for every character of two or three bytes and one more again
\* for every character of three bytes
GoLen(s) ==
    Len(s) + Cardinality({i \in 1..Len(s) : ByteWidth(s[i]) >= 2})
           + Cardinality({i \in 1..Len(s) : ByteWidth(s[i]) = 3})

\* the string made of n copies of the character c
Rep(c, n) == [i \in 1..n |-> c]

\* pointers
Nil == <<>>
Ptr(x) == <<x>>
IsNilPtr(p) == Len(p) = 0
Deref(p) == p[1]

(***************************************************************************)
(* ValidationError, ValidationErrors and the error interface.              *)
(***************************************************************************)
VE(field, message) == [Field |-> field, Message |-> message]

\* func (e ValidationError) Error() string
ValidationError_Error(e) == <<"Field '">> \o e.Field \o <<"': ">> \o e.Message

\* strings.Join(messages, sep)
RECURSIVE StringsJoin(_, _)
StringsJoin(messages, sep) ==
    IF Len(messages) = 0 THEN <<>>
    ELSE IF Len(messages) = 1 THEN messages[1]
    ELSE messages[1] \o <<sep>> \o StringsJoin(Tail(messages), sep)

ValidationErrors_ErrorDropsLast(errs) ==
    IF Len(errs) = 0 THEN <<>>
    ELSE StringsJoin([i \in 1..(Len(errs) - 1) |-> ValidationError_Error(errs[i])], "; ")

\* func (errs ValidationErrors) Error() string
ValidationErrors_Error(errs) ==
    IF Len(errs) = 0 THEN <<>>
    ELSE StringsJoin([i \in 1..Len(errs) |-> ValidationError_Error(errs[i])], "; ")

HasErrorsAlways(errs) == Len(errs) >= 0

\* func (errs ValidationErrors) HasErrors() bool
HasErrors(errs) == Len(errs) > 0

\* a value of the interface type error: the nil error, and an error whose
\* dynamic type is ValidationErrors, holding a list of violations
NilError == [IsNil |-> TRUE, Errs |-> <<>>, Type |-> "nil"]
ErrorOf(errs) == [IsNil |-> FALSE, Errs |-> errs, Type |-> "ValidationErrors"]

FailAsList(field, message) == ErrorOf(<<VE(field, message)>>)

\* a primitive's "return ValidationError{Field: ..., Message: ...}": an
\* error whose dynamic type is ValidationError
Fail(field, message) ==
    [IsNil |-> FALSE, Errs |-> <<VE(field, message)>>, Type |-> "ValidationError"]

\* the outcome of a call that did not return: a run-time panic unwound it
\* (the package has no recover)
Panicked == [IsNil |-> FALSE, Errs |-> <<>>, Type |-> "panic"]

\* the mark a panic leaves in the list of the call it unwinds
PanicMark == VE(<<"panic">>, <<"the call did not return">>)

HasPanic(errs) == \E k \in 1..Len(errs) : errs[k] = PanicMark

\* the tail of every Validate method:
\*   if errs.HasErrors() { return errs }; return nil
Return(errs) ==
    IF HasPanic(errs) THEN Panicked
    ELSE IF HasErrors(errs) THEN ErrorOf(errs) ELSE NilError

\* "if err := prim(...); err != nil { errs = append(errs, err.(ValidationError)) }":
\* the elements this statement appends to errs
\* the type assertion panics when the dynamic type is another one
Appended(err) ==
    IF err.IsNil THEN <<>>
    ELSE IF err.Type = "ValidationError" THEN <<err.Errs[1]>> ELSE <<PanicMark>>

\* the variant of the wrapping below that keeps the child's violations apart,
\* one violation of the parent for each of them
WrappedEach(name, err) ==
    IF err.IsNil THEN <<>>
    ELSE IF err.Type = "panic" THEN <<PanicMark>>
    ELSE [k \in 1..Len(err.Errs) |-> VE(name, ValidationErrors_Error(<<err.Errs[k]>>))]

\* "if err := child.Validate(); err != nil {
\*      errs = append(errs, ValidationError{Field: name, Message: err.Error()}) }"
Wrapped(name, err) ==
    IF err.IsNil THEN <<>>
    ELSE IF err.Type = "panic" THEN <<PanicMark>>
         ELSE <<VE(name, ValidationErrors_Error(err.Errs))>>

(***************************************************************************)
(* Primitive constraints.                                                  *)
(***************************************************************************)
AlphaNum == Upper \cup Digit

\* one item of a compiled pattern: between Min and Max characters of Class
Item(class, min, max) == [Class |-> class, Min |-> min, Max |-> max]

PatCurrency == "^[A-Z]{3}$"
PatCountry == "^[A-Z]{2}$"
PatBIC == "^[A-Z]{4}[A-Z]{2}[A-Z0-9]{2}([A-Z0-9]{3})?$"
PatIBAN == "^[A-Z]{2}[0-9]{2}[A-Z0-9]{1,30}$"
PatLEI == "^[A-Z0-9]{18}[0-9]{2}$"
PatNbOfTxs == "^[0-9]{1,15}$"
PatMsgDef == "^[a-z]{4}\\.\\d{3}\\.\\d{3}\\.\\d{2}$"
PatDate == "^\\d{4}-\\d{2}-\\d{2}$"
PatDateTime == "^\\d{4}-\\d{2}-\\d{2}T\\d{2}:\\d{2}:\\d{2}(\\.\\d{3}Z?)?$"

\* the items of \d{4}-\d{2}-\d{2}
DateItems ==
    <<Item(Digit, 4, 4), Item({"-"}, 1, 1), Item(Digit, 2, 2), Item({"-"}, 1, 1),
      Item(Digit, 2, 2)>>

\* the items of T\d{2}:\d{2}:\d{2}
TimeItems ==
    <<Item({"T"}, 1, 1), Item(Digit, 2, 2), Item({":"}, 1, 1), Item(Digit, 2, 2),
      Item({":"}, 1, 1), Item(Digit, 2, 2)>>

\* the items of the optional group (\.\d{3}Z?)
FractionItems == <<Item({"."}, 1, 1), Item(Digit, 3, 3), Item({"Z"}, 0, 1)>>

\* regexp.Compile restricted to the patterns of the source: the anchored
\* sequence of counted character classes the pattern denotes, and the
\* numbers of items after which the pattern may end (more than one when the
\* pattern ends with an optional group); any other text is reported as a
\* compile error
RegexpCompile(pattern) ==
    CASE pattern = PatCurrency ->
            [Err |-> <<>>, Items |-> <<Item(Upper, 3, 3)>>, Ends |-> {1}]
      [] pattern = PatCountry ->
            [Err |-> <<>>, Items |-> <<Item(Upper, 2, 2)>>, Ends |-> {1}]
      [] pattern = PatBIC ->
            [Err |-> <<>>,
             Items |-> <<Item(Upper, 4, 4), Item(Upper, 2, 2), Item(AlphaNum, 2, 2),
                         Item(AlphaNum, 3, 3)>>,
             Ends |-> {3, 4}]
      [] pattern = PatIBAN ->
            [Err |-> <<>>,
             Items |-> <<Item(Upper, 2, 2), Item(Digit, 2, 2), Item(AlphaNum, 1, 30)>>,
             Ends |-> {3}]
      [] pattern = PatLEI ->
            [Err |-> <<>>,
             Items |-> <<Item(AlphaNum, 18, 18), Item(Digit, 2, 2)>>,
             Ends |-> {2}]
      [] pattern = PatNbOfTxs ->
            [Err |-> <<>>, Items |-> <<Item(Digit, 1, 15)>>, Ends |-> {1}]
      [] pattern = PatMsgDef ->
            [Err |-> <<>>,
             Items |-> <<Item(Lower, 4, 4), Item({"."}, 1, 1), Item(Digit, 3, 3),
                         Item({"."}, 1, 1), Item(Digit, 3, 3), Item({"."}, 1, 1),
                         Item(Digit, 2, 2)>>,
             Ends |-> {7}]
      [] pattern = PatDate ->
            [Err |-> <<>>, Items |-> DateItems, Ends |-> {Len(DateItems)}]
      [] pattern = PatDateTime ->
            [Err |-> <<>>,
             Items |-> DateItems \o TimeItems \o FractionItems,
             Ends |-> {Len(DateItems) + Len(TimeItems),
                       Len(DateItems) + Len(TimeItems) + Len(FractionItems)}]
      [] OTHER -> [Err |-> <<"error parsing regexp">>, Items |-> <<>>, Ends |-> {}]

\* do the characters i .. j of s all belong to class
AllIn(s, i, j, class) == \A k \in i..j : s[k] \in class

\* does s from position i on match the items k .. last, up to the end of s
RECURSIVE MatchItems(_, _, _, _, _)
MatchItems(items, k, last, s, i) ==
    IF k > last THEN i = Len(s) + 1
    ELSE \E n \in items[k].Min..items[k].Max :
            /\ i + n - 1 <= Len(s)
            /\ AllIn(s, i, i + n - 1, items[k].Class)
            /\ MatchItems(items, k + 1, last, s, i + n)

\* the match of a compiled pattern against the whole of s
Matches(re, s) == \E last \in re.Ends : MatchItems(re.Items, 1, last, s, 1)

\* regexp.MatchString(pattern, value): (matched, err)
RegexpMatchString(pattern, value) ==
    LET Run(re) ==
            IF re.Err # <<>> THEN [Matched |-> FALSE, Err |-> re.Err]
            ELSE [Matched |-> Matches(re, value), Err |-> <<>>]
    IN  Run(RegexpCompile(pattern))

\* reflect.ValueOf(value) for the kinds validateRequired is called with
ReflectString(s) == [Kind |-> "String", IsNil |-> FALSE, IsZero |-> Len(s) = 0]
ReflectStruct(isZero) == [Kind |-> "Struct", IsNil |-> FALSE, IsZero |-> isZero]
ReflectPtr(p, elemIsZero) ==
    [Kind |-> "Ptr", IsNil |-> IsNilPtr(p), IsZero |-> elemIsZero]

\* validateRequired without the check of the zero value
validateRequiredNilOnly(v, fieldName) ==
    IF v.Kind = "Ptr" /\ v.IsNil
    THEN Fail(<<fieldName>>, <<"is required but is nil">>)
    ELSE NilError
\* func validateRequired(value interface{}, fieldName string) error
validateRequired(v, fieldName) ==
    IF v.Kind = "Ptr" /\ v.IsNil
    THEN Fail(<<fieldName>>, <<"is required but is nil">>)
    ELSE IF v.IsZero
         THEN Fail(<<fieldName>>, <<"is required but is empty">>)
         ELSE NilError

\* func validateStringLength(value string, minLen, maxLen int, fieldName string) error
validateStringLength(value, minLen, maxLen, fieldName) ==
    LET Check(length) ==
            IF length < minLen
            THEN Fail(<<fieldName>>,
                      <<"length ", ToString(length), " is below minimum ", ToString(minLen)>>)
            ELSE IF length > maxLen
                 THEN Fail(<<fieldName>>,
                           <<"length ", ToString(length), " exceeds maximum ",
                             ToString(maxLen)>>)
                 ELSE NilError
    IN  Check(GoLen(value))

\* func validatePattern(value string, pattern string, fieldName string) error
validatePattern(value, pattern, fieldName) ==
    LET Check(m) ==
            IF m.Err # <<>>
            THEN Fail(<<fieldName>>, <<"pattern validation failed: ">> \o m.Err)
            ELSE IF ~m.Matched
                 THEN Fail(<<fieldName>>,
                           <<"does not match required pattern '", pattern, "'">>)
                 ELSE NilError
    IN  Check(RegexpMatchString(pattern, value))

\* func validateEnumeration(value string, validValues []string, fieldName string) error
validateEnumeration(value, validValues, fieldName) ==
    IF \E k \in 1..Len(validValues) : value = validValues[k]
    THEN NilError
    ELSE Fail(<<fieldName>>, <<"'">> \o value \o <<"' is not a valid enumeration value">>)

validateCurrencyLengthOnly(code, fieldName) == validateStringLength(code, 3, 3, fieldName)

\* func validateCurrency(code string, fieldName string) error
validateCurrency(code, fieldName) ==
    LET Then(err) == IF ~err.IsNil THEN err ELSE validatePattern(code, PatCurrency, fieldName)
    IN  Then(validateStringLength(code, 3, 3, fieldName))

validateCountryCodeBoth(code, fieldName) ==
    Return(Appended(validateStringLength(code, 2, 2, fieldName))
           \o Appended(validatePattern(code, PatCountry, fieldName)))

\* func validateCountryCode(code string, fieldName string) error
validateCountryCode(code, fieldName) ==
    LET Then(err) == IF ~err.IsNil THEN err ELSE validatePattern(code, PatCountry, fieldName)
    IN  Then(validateStringLength(code, 2, 2, fieldName))

validateBICLengthOnly(bic, fieldName) == validateStringLength(bic, 8, 11, fieldName)

\* func validateBIC(bic string, fieldName string) error
validateBIC(bic, fieldName) ==
    LET Then(err) == IF ~err.IsNil THEN err ELSE validatePattern(bic, PatBIC, fieldName)
    IN  Then(validateStringLength(bic, 8, 11, fieldName))

\* func validateIBAN(iban string, fieldName string) error
validateIBAN(iban, fieldName) ==
    LET Then(err) == IF ~err.IsNil THEN err ELSE validatePattern(iban, PatIBAN, fieldName)
    IN  Then(validateStringLength(iban, 15, 34, fieldName))

\* func validateLEI(lei string, fieldName string) error
validateLEI(lei, fieldName) ==
    LET Then(err) == IF ~err.IsNil THEN err ELSE validatePattern(lei, PatLEI, fieldName)
    IN  Then(validateStringLength(lei, 20, 20, fieldName))

(***************************************************************************)
(* time.Parse for the layouts of the source.  A layout is the sequence of  *)
(* its chunks: "2006" a year of four digits, "01" "02" "04" "05" numbers   *)
(* of exactly two digits, "15" an hour of one or two digits, ".000" a      *)
(* fraction of exactly three digits, anything else a literal.              *)
(***************************************************************************)
LayoutDate == <<"2006", "-", "01", "-", "02">>
LayoutDateTime == LayoutDate \o <<"T", "15", ":", "04", ":", "05">>
LayoutMillis == LayoutDateTime \o <<".000">>
LayoutMillisZ == LayoutMillis \o <<"Z">>

\* the number a digit stands for
DigitValue(c) ==
    CHOOSE n \in 0..9 : <<"0", "1", "2", "3", "4", "5", "6", "7", "8", "9">>[n + 1] = c

\* isDigit(s, i), i counted from 1
IsDigitAt(s, i) == i <= Len(s) /\ s[i] \in Digit

\* the number written by the digits i .. j of s
RECURSIVE Atoi(_, _, _)
Atoi(s, i, j) == IF j < i THEN 0 ELSE Atoi(s, i, j - 1) * 10 + DigitValue(s[j])

\* isLeap(year) and daysIn(month, year)
IsLeap(year) == year % 4 = 0 /\ (year % 100 # 0 \/ year % 400 = 0)

DaysInAlways31(month, year) == 31

DaysIn(month, year) ==
    IF month = 2 THEN (IF IsLeap(year) THEN 29 ELSE 28)
    ELSE IF month \in {4, 6, 9, 11} THEN 30 ELSE 31

\* the state of a parse: the position of the next character of the value,
\* the fields read so far and whether an error was met
ParseStart ==
    [Ok |-> TRUE, Pos |-> 1, Year |-> 0, Month |-> 1, Day |-> 1, Hour |-> 0, Min |-> 0,
     Sec |-> 0]

ParseError(st) == [st EXCEPT !.Ok = FALSE]

\* getnum(value, fixed): the number of digits it takes, 0 for an error
GetnumWidth(s, i, fixed) ==
    IF ~IsDigitAt(s, i) THEN 0
    ELSE IF ~IsDigitAt(s, i + 1) THEN (IF fixed THEN 0 ELSE 1)
    ELSE 2

\* commaOrPeriod(value[0])
CommaOrPeriodAt(s, i) == i <= Len(s) /\ s[i] \in {".", ","}

\* parseNanoseconds over the characters i .. j of s: a period or comma and
\* a number atoi accepts that is not negative (digits, or "+" and digits)
ParseNanosecondsOk(s, i, j) ==
    /\ CommaOrPeriodAt(s, i)
    /\ j > i
    /\ \/ AllIn(s, i + 1, j, Digit)
       \/ (s[i + 1] = "+" /\ j > i + 1 /\ AllIn(s, i + 2, j, Digit))

\* the end of the run of digits of s that starts at position i
DigitRunEnd(s, i) ==
    CHOOSE j \in (i - 1)..Len(s) :
        /\ AllIn(s, i, j, Digit)
        /\ ~IsDigitAt(s, j + 1)

\* one chunk of the layout read from the value; next is the chunk after it
\* (the empty string at the end of the layout)
ParseChunk(chunk, next, s, st) ==
    LET i == st.Pos
    IN  CASE chunk = "2006" ->
                IF i + 3 <= Len(s) /\ AllIn(s, i, i + 3, Digit)
                THEN [st EXCEPT !.Year = Atoi(s, i, i + 3), !.Pos = i + 4]
                ELSE ParseError(st)
          [] chunk \in {"01", "02", "15", "04", "05"} ->
                LET w == GetnumWidth(s, i, chunk # "15")
                    n == Atoi(s, i, i + w - 1)
                IN  IF w = 0 THEN ParseError(st)
                    ELSE (CASE chunk = "01" ->
                                  IF n <= 0 \/ 12 < n THEN ParseError(st)
                                  ELSE [st EXCEPT !.Month = n, !.Pos = i + w]
                            [] chunk = "02" -> [st EXCEPT !.Day = n, !.Pos = i + w]
                            [] chunk = "15" ->
                                  IF 24 <= n THEN ParseError(st)
                                  ELSE [st EXCEPT !.Hour = n, !.Pos = i + w]
                            [] chunk = "04" ->
                                  IF 60 <= n THEN ParseError(st)
                                  ELSE [st EXCEPT !.Min = n, !.Pos = i + w]
                            [] chunk = "05" ->
                                  IF 60 <= n THEN ParseError(st)
                                  ELSE IF /\ CommaOrPeriodAt(s, i + w)
                                          /\ IsDigitAt(s, i + w + 1)
                                          /\ next # ".000"
                                       THEN \* a fraction the layout does not name
                                            [st EXCEPT !.Sec = n,
                                                       !.Pos = DigitRunEnd(s, i + w + 1) + 1]
                                       ELSE [st EXCEPT !.Sec = n, !.Pos = i + w])
          [] chunk = ".000" ->
                IF i + 3 <= Len(s) /\ ParseNanosecondsOk(s, i, i + 3)
                THEN [st EXCEPT !.Pos = i + 4]
                ELSE ParseError(st)
          [] OTHER ->
                IF i <= Len(s) /\ s[i] = chunk
                THEN [st EXCEPT !.Pos = i + 1]
                ELSE ParseError(st)

\* the chunks k .. of the layout read in turn, stopping at the first error
RECURSIVE ParseChunks(_, _, _, _)
ParseChunks(layout, k, s, st) ==
    IF k > Len(layout) \/ ~st.Ok THEN st
    ELSE ParseChunks(layout, k + 1, s,
                     ParseChunk(layout[k], IF k < Len(layout) THEN layout[k + 1] ELSE "",
                                s, st))

\* time.Parse(layout, value): is the returned error nil.  After the chunks
\* no text may remain, and the day must exist in its month
TimeParse(layout, value) ==
    LET st == ParseChunks(layout, 1, value, ParseStart)
    IN  [Ok |-> /\ st.Ok
                /\ st.Pos = Len(value) + 1
                /\ ~(st.Day < 1 \/ st.Day > DaysIn(st.Month, st.Year))]

\* func validateDate(date string, fieldName string) error
validateDate(date, fieldName) ==
    IF Len(date) = 0 THEN Fail(<<fieldName>>, <<"date is required">>)
    ELSE IF ~validatePattern(date, PatDate, fieldName).IsNil
         THEN Fail(<<fieldName>>, <<"date must be in YYYY-MM-DD format">>)
         ELSE IF ~TimeParse(LayoutDate, date).Ok
              THEN Fail(<<fieldName>>, <<"invalid date value">>)
              ELSE NilError

\* the layouts validateDateTime tries in turn
DateTimeLayouts == <<LayoutDateTime, LayoutMillis, LayoutMillisZ>>

\* "for _, layout := range layouts { _, parseErr = time.Parse(layout, dateTime);
\*      if parseErr == nil { break } }": is parseErr nil after the loop
RECURSIVE LayoutLoop(_, _, _)
LayoutLoop(layouts, k, dateTime) ==
    IF k > Len(layouts) THEN FALSE
    ELSE IF TimeParse(layouts[k], dateTime).Ok THEN TRUE
         ELSE LayoutLoop(layouts, k + 1, dateTime)

validateDateTimeShapeOnly(dateTime, fieldName) ==
    IF Len(dateTime) = 0 THEN Fail(<<fieldName>>, <<"datetime is required">>)
    ELSE IF ~validatePattern(dateTime, PatDateTime, fieldName).IsNil
         THEN Fail(<<fieldName>>, <<"datetime must be in YYYY-MM-DDTHH:MM:SS format">>)
         ELSE NilError

\* func validateDateTime(dateTime string, fieldName string) error
validateDateTime(dateTime, fieldName) ==
    IF Len(dateTime) = 0 THEN Fail(<<fieldName>>, <<"datetime is required">>)
    ELSE IF ~validatePattern(dateTime, PatDateTime, fieldName).IsNil
         THEN Fail(<<fieldName>>, <<"datetime must be in YYYY-MM-DDTHH:MM:SS format">>)
         ELSE IF ~LayoutLoop(DateTimeLayouts, 1, dateTime)
              THEN Fail(<<fieldName>>, <<"invalid datetime value">>)
              ELSE NilError

(***************************************************************************)
(* reflect.Value.IsZero of the structures validateRequired is called with: *)
(* a structure is zero when every field is zero.  Fields of the Go         *)
(* structures that no Validate method reads and that the model does not    *)
(* carry are at their zero value.                                          *)
(***************************************************************************)
IsZero_SettlementInstruction7(s) ==
    Len(s.SettlementMethod) = 0 /\ IsNilPtr(s.SettlementAccount)

IsZero_FinancialInstitutionIdentification18(f) ==
    /\ IsNilPtr(f.BankIdentifierCode)
    /\ IsNilPtr(f.ClearingSystemMemberID)
    /\ IsNilPtr(f.LegalEntityIdentifier)
    /\ IsNilPtr(f.Name)

IsZero_GroupHeader93(g) ==
    /\ Len(g.MessageID) = 0
    /\ IsNilPtr(g.CreationDateTime)
    /\ Len(g.NumberOfTransactions) = 0
    /\ IsZero_SettlementInstruction7(g.SettlementInfo)

\* a slice is zero when it is nil; an empty non-nil slice is not
IsZero_FIToFICustomerCreditTransferV08(f) ==
    IsZero_GroupHeader93(f.GroupHeader) /\ f.CreditTransferTransactionInfo.IsNil

\* slices: the nil slice and a slice holding the elements q
NilSlice == [IsNil |-> TRUE, Elems |-> <<>>]
Slice(q) == [IsNil |-> FALSE, Elems |-> q]

(***************************************************************************)
(* Choice structures of two string alternatives.                           *)
(***************************************************************************)
\* the body shared by the Validate methods of the Code / Proprietary choice
\* structures, which differ in the maximum length of Proprietary only
CodeOrProprietary_errs(c, maxProprietary) ==
    LET choiceCount == (IF ~IsNilPtr(c.Code) THEN 1 ELSE 0)
                       + (IF ~IsNilPtr(c.Proprietary) THEN 1 ELSE 0)
        e1 == IF ~IsNilPtr(c.Code)
              THEN Appended(validateStringLength(Deref(c.Code), 1, 35, "Code"))
              ELSE <<>>
        e2 == IF ~IsNilPtr(c.Proprietary)
              THEN Appended(validateStringLength(Deref(c.Proprietary), 1, maxProprietary,
                                                 "Proprietary"))
              ELSE <<>>
        e3 == IF choiceCount # 1
              THEN <<VE(<<"Choice">>, <<"exactly one choice must be present">>)>>
              ELSE <<>>
    IN  e1 \o e2 \o e3

InterestType1_errsOnlyNone(i) ==
    LET e1 == IF ~IsNilPtr(i.Code)
              THEN Appended(validateStringLength(Deref(i.Code), 1, 35, "Code"))
              ELSE <<>>
        e2 == IF ~IsNilPtr(i.Proprietary)
              THEN Appended(validateStringLength(Deref(i.Proprietary), 1, 35, "Proprietary"))
              ELSE <<>>
        e3 == IF IsNilPtr(i.Code) /\ IsNilPtr(i.Proprietary)
              THEN <<VE(<<"Choice">>, <<"exactly one choice must be present">>)>>
              ELSE <<>>
    IN  e1 \o e2 \o e3

\* func (i *InterestType1) Validate() error
InterestType1_errs(i) == CodeOrProprietary_errs(i, 35)
InterestType1_Validate(i) == Return(InterestType1_errs(i))

\* func (b *BalanceType10) Validate() error
BalanceType10_errs(b) == CodeOrProprietary_errs(b, 35)
BalanceType10_Validate(b) == Return(BalanceType10_errs(b))

\* func (b *BalanceSubType1) Validate() error
BalanceSubType1_errs(b) == CodeOrProprietary_errs(b, 35)
BalanceSubType1_Validate(b) == Return(BalanceSubType1_errs(b))

\* func (s *ServiceLevel8) Validate() error
ServiceLevel8_errs(s) == CodeOrProprietary_errs(s, 35)
ServiceLevel8_Validate(s) == Return(ServiceLevel8_errs(s))

\* func (l *LocalInstrument2) Validate() error
LocalInstrument2_errs(l) == CodeOrProprietary_errs(l, 35)
LocalInstrument2_Validate(l) == Return(LocalInstrument2_errs(l))

\* func (c *CategoryPurpose1) Validate() error
CategoryPurpose1_errs(c) == CodeOrProprietary_errs(c, 35)
CategoryPurpose1_Validate(c) == Return(CategoryPurpose1_errs(c))

\* func (m *MandateSetupReason1) Validate() error
MandateSetupReason1_errs(m) == CodeOrProprietary_errs(m, 70)
MandateSetupReason1_Validate(m) == Return(MandateSetupReason1_errs(m))

\* func (c *CashAccountType2Choice) Validate() error
CashAccountType2Choice_errs(c) == CodeOrProprietary_errs(c, 35)
CashAccountType2Choice_Validate(c) == Return(CashAccountType2Choice_errs(c))

(***************************************************************************)
(* Structures of the pacs.008.001.08 tree, leaves first.                   *)
(***************************************************************************)
OptLengthChecksNil(p, min, max, name) ==
    Appended(validateStringLength(IF IsNilPtr(p) THEN <<>> ELSE Deref(p), min, max, name))

\* "if p != nil { if err := validateStringLength(*p, min, max, name); ... }"
OptLength(p, min, max, name) ==
    IF ~IsNilPtr(p) THEN Appended(validateStringLength(Deref(p), min, max, name)) ELSE <<>>

\* func (p *PaymentIdentification7) Validate() error
PaymentIdentification7_errs(p) ==
    LET req == validateRequired(ReflectString(p.EndToEndID), "EndToEndID")
        e1 == IF ~req.IsNil THEN Appended(req)
              ELSE Appended(validateStringLength(p.EndToEndID, 1, 35, "EndToEndID"))
        e2 == OptLength(p.TransactionID, 1, 35, "TransactionID")
    IN  e1 \o e2
PaymentIdentification7_Validate(p) == Return(PaymentIdentification7_errs(p))

\* func (g *GenericIdentification30) Validate() error
GenericIdentification30_errs(g) ==
    LET req1 == validateRequired(ReflectString(g.ID), "ID")
        e1 == IF ~req1.IsNil THEN Appended(req1)
              ELSE IF GoLen(g.ID) # 4
                   THEN <<VE(<<"ID">>, <<"must be exactly 4 characters">>)>>
                   ELSE <<>>
        req2 == validateRequired(ReflectString(g.Issuer), "Issuer")
        e2 == IF ~req2.IsNil THEN Appended(req2)
              ELSE Appended(validateStringLength(g.Issuer, 1, 35, "Issuer"))
        e3 == OptLength(g.SchemeName, 1, 35, "SchemeName")
    IN  e1 \o e2 \o e3
GenericIdentification30_Validate(g) == Return(GenericIdentification30_errs(g))

ActiveCurrencyAndAmount_errsValueOnly(a) ==
    IF a.Value <= 0 THEN <<VE(<<"Value">>, <<"must be positive">>)>>
    ELSE IF Len(a.Currency) = 0 THEN <<VE(<<"Ccy">>, <<"is required">>)>>
         ELSE Appended(validateCurrency(a.Currency, "Ccy"))

\* func (a *ActiveCurrencyAndAmount) Validate() error
ActiveCurrencyAndAmount_errs(a) ==
    LET e1 == IF a.Value <= 0 THEN <<VE(<<"Value">>, <<"must be positive">>)>> ELSE <<>>
        e2 == IF Len(a.Currency) = 0 THEN <<VE(<<"Ccy">>, <<"is required">>)>>
              ELSE Appended(validateCurrency(a.Currency, "Ccy"))
    IN  e1 \o e2
ActiveCurrencyAndAmount_Validate(a) == Return(ActiveCurrencyAndAmount_errs(a))

\* func (p *PostalAddress24) Validate() error
PostalAddress24_errs(p) ==
    LET e1 == OptLength(p.Department, 1, 70, "Department")
        e2 == OptLength(p.StreetName, 1, 70, "StreetName")
        e3 == OptLength(p.BuildingNumber, 1, 16, "BuildingNumber")
        e4 == OptLength(p.PostCode, 1, 16, "PostCode")
        e5 == OptLength(p.TownName, 1, 35, "TownName")
        e6 == IF ~IsNilPtr(p.Country)
              THEN Appended(validateCountryCode(Deref(p.Country), "Country"))
              ELSE <<>>
    IN  e1 \o e2 \o e3 \o e4 \o e5 \o e6
PostalAddress24_Validate(p) == Return(PostalAddress24_errs(p))

\* func (c *Contact4) Validate() error
Contact4_errs(c) ==
    LET e1 == OptLength(c.Name, 1, 140, "Name")
        e2 == OptLength(c.EmailAddress, 1, 2048, "EmailAddress")
        e3 == OptLength(c.PhoneNumber, 1, 35, "PhoneNumber")
    IN  e1 \o e2 \o e3
Contact4_Validate(c) == Return(Contact4_errs(c))

\* func (p *PartyIdentification135) Validate() error
PartyIdentification135_errs(p) ==
    LET e1 == OptLength(p.Name, 1, 140, "Name")
        e2 == IF ~IsNilPtr(p.PostalAddress)
              THEN Wrapped(<<"PostalAddress">>, PostalAddress24_Validate(Deref(p.PostalAddress)))
              ELSE <<>>
        e3 == IF ~IsNilPtr(p.ContactDetails)
              THEN Wrapped(<<"ContactDetails">>, Contact4_Validate(Deref(p.ContactDetails)))
              ELSE <<>>
    IN  e1 \o e2 \o e3
PartyIdentification135_Validate(p) == Return(PartyIdentification135_errs(p))

\* func (f *FinancialInstitutionIdentification18) Validate() error
FinancialInstitutionIdentification18_errs(f) ==
    LET e1 == IF ~IsNilPtr(f.BankIdentifierCode)
              THEN Appended(validateBIC(Deref(f.BankIdentifierCode), "BankIdentifierCode"))
              ELSE <<>>
        e2 == IF ~IsNilPtr(f.LegalEntityIdentifier)
              THEN Appended(validateLEI(Deref(f.LegalEntityIdentifier), "LegalEntityIdentifier"))
              ELSE <<>>
        e3 == OptLength(f.Name, 1, 140, "Name")
    IN  e1 \o e2 \o e3
FinancialInstitutionIdentification18_Validate(f) ==
    Return(FinancialInstitutionIdentification18_errs(f))

\* func (b *BranchData3) Validate() error
BranchData3_errs(b) ==
    LET e1 == OptLength(b.ID, 1, 35, "ID")
        e2 == IF ~IsNilPtr(b.LegalEntityIdentifier)
              THEN Appended(validateLEI(Deref(b.LegalEntityIdentifier), "LegalEntityIdentifier"))
              ELSE <<>>
        e3 == OptLength(b.Name, 1, 140, "Name")
    IN  e1 \o e2 \o e3
BranchData3_Validate(b) == Return(BranchData3_errs(b))

\* func (b *BranchAndFinancialInstitutionIdentification6) Validate() error
BranchAndFinancialInstitutionIdentification6_errs(b) ==
    LET req == validateRequired(
                   ReflectStruct(IsZero_FinancialInstitutionIdentification18(
                                     b.FinancialInstitutionID)),
                   "FinancialInstitutionID")
        e1 == IF ~req.IsNil THEN Appended(req)
              ELSE Wrapped(<<"FinancialInstitutionID">>,
                           FinancialInstitutionIdentification18_Validate(
                               b.FinancialInstitutionID))
        e2 == IF ~IsNilPtr(b.BranchID)
              THEN Wrapped(<<"BranchID">>, BranchData3_Validate(Deref(b.BranchID)))
              ELSE <<>>
    IN  e1 \o e2
BranchAndFinancialInstitutionIdentification6_Validate(b) ==
    Return(BranchAndFinancialInstitutionIdentification6_errs(b))

\* func (g *GenericAccountIdentification1) Validate() error
GenericAccountIdentification1_errs(g) ==
    LET req == validateRequired(ReflectString(g.ID), "ID")
        e1 == IF ~req.IsNil THEN Appended(req)
              ELSE Appended(validateStringLength(g.ID, 1, 34, "ID"))
        e2 == OptLength(g.Issuer, 1, 35, "Issuer")
    IN  e1 \o e2
GenericAccountIdentification1_Validate(g) == Return(GenericAccountIdentification1_errs(g))

AccountIdentification4_errsStopsAtChoice(a) ==
    LET hasIBAN == ~IsNilPtr(a.IBAN)
        hasOther == ~IsNilPtr(a.Other)
    IN  IF ~hasIBAN /\ ~hasOther
        THEN <<VE(<<"Choice">>, <<"must have either IBAN or Other">>)>>
        ELSE IF hasIBAN /\ hasOther
             THEN <<VE(<<"Choice">>, <<"cannot have both IBAN and Other">>)>>
             ELSE <<>>

\* func (a *AccountIdentification4) Validate() error
AccountIdentification4_errs(a) ==
    LET hasIBAN == ~IsNilPtr(a.IBAN)
        hasOther == ~IsNilPtr(a.Other)
        e1 == IF ~hasIBAN /\ ~hasOther
              THEN <<VE(<<"Choice">>, <<"must have either IBAN or Other">>)>>
              ELSE IF hasIBAN /\ hasOther
                   THEN <<VE(<<"Choice">>, <<"cannot have both IBAN and Other">>)>>
                   ELSE <<>>
        e2 == IF hasIBAN
              THEN Appended(validateStringLength(Deref(a.IBAN), 15, 34, "IBAN"))
              ELSE <<>>
        e3 == IF hasOther
              THEN Wrapped(<<"Other">>, GenericAccountIdentification1_Validate(Deref(a.Other)))
              ELSE <<>>
    IN  e1 \o e2 \o e3
AccountIdentification4_Validate(a) == Return(AccountIdentification4_errs(a))

\* func (c *CashAccount38) Validate() error
CashAccount38_errs(c) ==
    LET e1 == Wrapped(<<"ID">>, AccountIdentification4_Validate(c.ID))
        e2 == OptLength(c.Currency, 3, 3, "Currency")
        e3 == OptLength(c.Name, 1, 70, "Name")
    IN  e1 \o e2 \o e3
CashAccount38_Validate(c) == Return(CashAccount38_errs(c))

\* func (p *PaymentTypeInfo28) Validate() error
PaymentTypeInfo28_errs(p) ==
    LET e1 == OptLength(p.InstructionPriority, 1, 4, "InstructionPriority")
        e2 == OptLength(p.SequenceType, 1, 4, "SequenceType")
    IN  e1 \o e2
PaymentTypeInfo28_Validate(p) == Return(PaymentTypeInfo28_errs(p))

\* func (p *Party44) Validate() error
Party44_errs(p) ==
    LET choiceCount == (IF ~IsNilPtr(p.FinancialInstitutionID) THEN 1 ELSE 0)
                       + (IF ~IsNilPtr(p.OrganisationIdentification) THEN 1 ELSE 0)
        e1 == IF ~IsNilPtr(p.FinancialInstitutionID)
              THEN Wrapped(<<"FinancialInstitutionID">>,
                           BranchAndFinancialInstitutionIdentification6_Validate(
                               Deref(p.FinancialInstitutionID)))
              ELSE <<>>
        e2 == IF ~IsNilPtr(p.OrganisationIdentification)
              THEN Wrapped(<<"OrganisationIdentification">>,
                           PartyIdentification135_Validate(
                               Deref(p.OrganisationIdentification)))
              ELSE <<>>
        e3 == IF choiceCount = 0
              THEN <<VE(<<"Party44">>,
                        <<"either FinancialInstitutionID or OrganisationIdentification must be provided">>)>>
              ELSE IF choiceCount > 1
                   THEN <<VE(<<"Party44">>,
                             <<"only one of FinancialInstitutionID or OrganisationIdentification can be provided">>)>>
                   ELSE <<>>
    IN  e1 \o e2 \o e3
Party44_Validate(p) == Return(Party44_errs(p))

GroupHeader93_errsFailFast(g) ==
    LET req1 == validateRequired(ReflectString(g.MessageID), "MsgId")
        e1 == IF ~req1.IsNil THEN Appended(req1)
              ELSE Appended(validateStringLength(g.MessageID, 1, 35, "MsgId"))
        req2 == validateRequired(ReflectString(g.NumberOfTransactions), "NbOfTxs")
        e2 == IF ~req2.IsNil THEN Appended(req2)
              ELSE Appended(validatePattern(g.NumberOfTransactions, PatNbOfTxs, "NbOfTxs"))
        e3 == IF IsNilPtr(g.CreationDateTime)
              THEN <<VE(<<"CreDtTm">>, <<"is required">>)>>
              ELSE <<>>
        req4 == validateRequired(
                    ReflectStruct(IsZero_SettlementInstruction7(g.SettlementInfo)), "SttlmInf")
        e4 == IF ~req4.IsNil THEN Appended(req4)
              ELSE Appended(validateRequired(ReflectString(g.SettlementInfo.SettlementMethod),
                                             "SttlmMtd"))
    IN  IF e1 # <<>> THEN e1
        ELSE IF e2 # <<>> THEN e2
        ELSE IF e3 # <<>> THEN e3
        ELSE e4

\* func (g *GroupHeader93) Validate() error
GroupHeader93_errs(g) ==
    LET req1 == validateRequired(ReflectString(g.MessageID), "MsgId")
        e1 == IF ~req1.IsNil THEN Appended(req1)
              ELSE Appended(validateStringLength(g.MessageID, 1, 35, "MsgId"))
        req2 == validateRequired(ReflectString(g.NumberOfTransactions), "NbOfTxs")
        e2 == IF ~req2.IsNil THEN Appended(req2)
              ELSE Appended(validatePattern(g.NumberOfTransactions, PatNbOfTxs, "NbOfTxs"))
        e3 == IF IsNilPtr(g.CreationDateTime)
              THEN <<VE(<<"CreDtTm">>, <<"is required">>)>>
              ELSE <<>>
        req4 == validateRequired(
                    ReflectStruct(IsZero_SettlementInstruction7(g.SettlementInfo)), "SttlmInf")
        e4 == IF ~req4.IsNil THEN Appended(req4)
              ELSE Appended(validateRequired(ReflectString(g.SettlementInfo.SettlementMethod),
                                             "SttlmMtd"))
    IN  e1 \o e2 \o e3 \o e4
GroupHeader93_Validate(g) == Return(GroupHeader93_errs(g))

\* func (c *CreditTransferTransaction39) Validate() error
CreditTransferTransaction39_errs(c) ==
    LET e1 == Wrapped(<<"PaymentID">>, PaymentIdentification7_Validate(c.PaymentID))
        e2 == Wrapped(<<"InterbankSettlementAmount">>,
                      ActiveCurrencyAndAmount_Validate(c.InterbankSettlementAmount))
        req == validateRequired(ReflectString(c.ChargeBearer), "ChargeBearer")
        e3 == IF ~req.IsNil THEN Appended(req)
              ELSE Appended(validateStringLength(c.ChargeBearer, 1, 4, "ChargeBearer"))
        e4 == Wrapped(<<"Debtor">>, PartyIdentification135_Validate(c.Debtor))
        e5 == Wrapped(<<"DebtorAgent">>,
                      BranchAndFinancialInstitutionIdentification6_Validate(c.DebtorAgent))
        e6 == Wrapped(<<"Creditor">>, PartyIdentification135_Validate(c.Creditor))
        e7 == Wrapped(<<"CreditorAgent">>,
                      BranchAndFinancialInstitutionIdentification6_Validate(c.CreditorAgent))
        e8 == IF ~IsNilPtr(c.PaymentTypeInfo)
              THEN Wrapped(<<"PaymentTypeInfo">>,
                           PaymentTypeInfo28_Validate(Deref(c.PaymentTypeInfo)))
              ELSE <<>>
        e9 == IF ~IsNilPtr(c.DebtorAccount)
              THEN Wrapped(<<"DebtorAccount">>, CashAccount38_Validate(Deref(c.DebtorAccount)))
              ELSE <<>>
        e10 == IF ~IsNilPtr(c.CreditorAccount)
               THEN Wrapped(<<"CreditorAccount">>,
                            CashAccount38_Validate(Deref(c.CreditorAccount)))
               ELSE <<>>
        e11 == IF ~IsNilPtr(c.UltimateDebtor)
               THEN Wrapped(<<"UltimateDebtor">>,
                            PartyIdentification135_Validate(Deref(c.UltimateDebtor)))
               ELSE <<>>
        e12 == IF ~IsNilPtr(c.UltimateCreditor)
               THEN Wrapped(<<"UltimateCreditor">>,
                            PartyIdentification135_Validate(Deref(c.UltimateCreditor)))
               ELSE <<>>
    IN  e1 \o e2 \o e3 \o e4 \o e5 \o e6 \o e7 \o e8 \o e9 \o e10 \o e11 \o e12
CreditTransferTransaction39_Validate(c) == Return(CreditTransferTransaction39_errs(c))

\* fmt.Sprintf("CreditTransferTransactionInfo[%d]", i)
IndexedField(i) == <<"CreditTransferTransactionInfo[", ToString(i), "]">>

RECURSIVE TransactionLoopStopsAtFirst(_, _)
TransactionLoopStopsAtFirst(txs, i) ==
    IF i >= Len(txs) THEN <<>>
    ELSE IF ~CreditTransferTransaction39_Validate(txs[i + 1]).IsNil
         THEN Wrapped(IndexedField(i), CreditTransferTransaction39_Validate(txs[i + 1]))
         ELSE TransactionLoopStopsAtFirst(txs, i + 1)

\* "for i, tx := range f.CreditTransferTransactionInfo { ... }" from the
\* element at 0-based index i on: the elements the loop appends to errs
RECURSIVE TransactionLoop(_, _)
TransactionLoop(txs, i) ==
    IF i >= Len(txs) THEN <<>>
    ELSE Wrapped(IndexedField(i), CreditTransferTransaction39_Validate(txs[i + 1]))
         \o TransactionLoop(txs, i + 1)

\* func (f *FIToFICustomerCreditTransferV08) Validate() error
FIToFICustomerCreditTransferV08_errs(f) ==
    LET e1 == Wrapped(<<"GroupHeader">>, GroupHeader93_Validate(f.GroupHeader))
        e2 == IF Len(f.CreditTransferTransactionInfo.Elems) = 0
              THEN <<VE(<<"CreditTransferTransactionInfo">>,
                        <<"at least one credit transfer transaction is required">>)>>
              ELSE TransactionLoop(f.CreditTransferTransactionInfo.Elems, 0)
    IN  e1 \o e2
FIToFICustomerCreditTransferV08_Validate(f) ==
    Return(FIToFICustomerCreditTransferV08_errs(f))

\* func (d *Pacs00800108Document) Validate() error
Pacs00800108Document_errs(d) ==
    LET req == validateRequired(
                   ReflectStruct(IsZero_FIToFICustomerCreditTransferV08(
                                     d.FICustomerCreditTransfer)),
                   "FIToFICstmrCdtTrf")
        gh == GroupHeader93_Validate(d.FICustomerCreditTransfer.GroupHeader)
        e1 == IF gh.IsNil THEN <<>>
              ELSE IF gh.Type = "ValidationErrors" THEN gh.Errs
                   ELSE Wrapped(<<"GrpHdr">>, gh)
        e2 == IF Len(d.FICustomerCreditTransfer.CreditTransferTransactionInfo.Elems) = 0
              THEN <<VE(<<"CdtTrfTxInf">>, <<"at least one transaction is required">>)>>
              ELSE <<>>
    IN  IF ~req.IsNil THEN Appended(req) ELSE e1 \o e2
Pacs00800108Document_Validate(d) == Return(Pacs00800108Document_errs(d))

(***************************************************************************)
(* The business application header.                                        *)
(***************************************************************************)
\* regexp.MustCompile(pattern): the compiled pattern; the call panics when
\* the pattern does not compile
MustCompilePanics(pattern) == RegexpCompile(pattern).Err # <<>>

\* "if p != nil && *p != "" { if len(*p) > 35 { errs = append(errs, ...) } }"
OptMax35(p, field, message) ==
    IF ~IsNilPtr(p) /\ Len(Deref(p)) # 0 /\ GoLen(Deref(p)) > 35
    THEN <<VE(<<field>>, <<message>>)>>
    ELSE <<>>

\* "if s == "" { required } else if len(s) > max { too long }"
RequiredMax(s, max, field, required, tooLong) ==
    IF Len(s) = 0 THEN <<VE(<<field>>, <<required>>)>>
    ELSE IF GoLen(s) > max THEN <<VE(<<field>>, <<tooLong>>)>> ELSE <<>>

\* func (i *ImplementationSpecification1) Validate() error
ImplementationSpecification1_errs(i) ==
    LET e1 == IF IsNilPtr(i.Registry) THEN <<VE(<<"Registry">>, <<"registry is required">>)>>
              ELSE RequiredMax(Deref(i.Registry), 350, "Registry", "registry is required",
                               "registry must not exceed 350 characters")
        e2 == IF IsNilPtr(i.ID) THEN <<VE(<<"ID">>, <<"ID is required">>)>>
              ELSE RequiredMax(Deref(i.ID), 2048, "ID", "ID is required",
                               "ID must not exceed 2048 characters")
    IN  e1 \o e2
ImplementationSpecification1_Validate(i) == Return(ImplementationSpecification1_errs(i))

\* the checks BusinessApplicationHeader5.Validate and
\* BusinessApplicationHeaderV02.Validate have in common after the two
\* identifiers: From, To, CreationDate, CharacterSet, BusinessService
HeaderParties_errs(b) ==
    LET e3 == Wrapped(<<"From">>, Party44_Validate(b.From))
        e4 == Wrapped(<<"To">>, Party44_Validate(b.To))
        e5 == IF IsNilPtr(b.CreationDate)
              THEN <<VE(<<"CreationDate">>, <<"creation date is required">>)>>
              ELSE <<>>
        e6 == OptMax35(b.CharacterSet, "CharacterSet",
                       "character set must not exceed 35 characters")
        e7 == OptMax35(b.BusinessService, "BusinessService",
                       "business service must not exceed 35 characters")
    IN  e3 \o e4 \o e5 \o e6 \o e7

\* func (b *BusinessApplicationHeader5) Validate() error
BusinessApplicationHeader5_errs(b) ==
    LET e1 == RequiredMax(b.BusinessMessageID, 35, "BusinessMessageID",
                          "business message identifier is required",
                          "business message identifier must not exceed 35 characters")
        e2 == RequiredMax(b.MessageDefinitionID, 35, "MessageDefinitionID",
                          "message definition identifier is required",
                          "message definition identifier must not exceed 35 characters")
    IN  e1 \o e2 \o HeaderParties_errs(b)
BusinessApplicationHeader5_Validate(b) == Return(BusinessApplicationHeader5_errs(b))

\* fmt.Sprintf("Related[%d]", i)
RelatedField(i) == <<"Related[", ToString(i), "]">>

\* "for i, related := range b.Related { ... }" from the element at 0-based
\* index i on: the elements the loop appends to errs
RECURSIVE RelatedLoop(_, _)
RelatedLoop(related, i) ==
    IF i >= Len(related) THEN <<>>
    ELSE Wrapped(RelatedField(i), BusinessApplicationHeader5_Validate(related[i + 1]))
         \o RelatedLoop(related, i + 1)

\* func (b *BusinessApplicationHeaderV02) Validate() error
BusinessApplicationHeaderV02_errs(b) ==
    LET e1 == RequiredMax(b.BusinessMessageID, 35, "BusinessMessageID",
                          "business message identifier is required",
                          "business message identifier must not exceed 35 characters")
        e2 == IF Len(b.MessageDefinitionID) = 0
              THEN <<VE(<<"MessageDefinitionID">>,
                        <<"message definition identifier is required">>)>>
              ELSE IF MustCompilePanics(PatMsgDef) THEN <<PanicMark>>
              ELSE IF ~Matches(RegexpCompile(PatMsgDef), b.MessageDefinitionID)
                   THEN <<VE(<<"MessageDefinitionID">>,
                             <<"message definition identifier must follow format like 'pacs.008.001.08'">>)>>
                   ELSE <<>>
        e8 == IF ~IsNilPtr(b.MarketPractice)
              THEN Wrapped(<<"MarketPractice">>,
                           ImplementationSpecification1_Validate(Deref(b.MarketPractice)))
              ELSE <<>>
    IN  e1 \o e2 \o HeaderParties_errs(b) \o e8 \o RelatedLoop(b.Related.Elems, 0)
BusinessApplicationHeaderV02_Validate(b) == Return(BusinessApplicationHeaderV02_errs(b))

(***************************************************************************)
(* The patterns a call compiles, in the order it compiles them:            *)
(* regexp.MatchString compiles its pattern on every call of                *)
(* validatePattern, and BusinessApplicationHeaderV02.Validate calls        *)
(* regexp.MustCompile.  The package compiles no pattern at initialization. *)
(***************************************************************************)
\* a length check followed by validatePattern: validateCurrency,
\* validateCountryCode, validateBIC, validateIBAN, validateLEI
Composite_compiled(value, minLen, maxLen, pattern) ==
    IF validateStringLength(value, minLen, maxLen, "").IsNil THEN <<pattern>> ELSE <<>>

\* the same for an optional field
Optional_compiled(p, minLen, maxLen, pattern) ==
    IF IsNilPtr(p) THEN <<>> ELSE Composite_compiled(Deref(p), minLen, maxLen, pattern)

validateDate_compiled(date) == IF Len(date) = 0 THEN <<>> ELSE <<PatDate>>

validateDateTime_compiled(dateTime) == IF Len(dateTime) = 0 THEN <<>> ELSE <<PatDateTime>>

ActiveCurrencyAndAmount_compiled(a) ==
    IF Len(a.Currency) = 0 THEN <<>> ELSE Composite_compiled(a.Currency, 3, 3, PatCurrency)

PostalAddress24_compiled(p) == Optional_compiled(p.Country, 2, 2, PatCountry)

PartyIdentification135_compiled(p) ==
    IF IsNilPtr(p.PostalAddress) THEN <<>> ELSE PostalAddress24_compiled(Deref(p.PostalAddress))

FinancialInstitutionIdentification18_compiled(f) ==
    Optional_compiled(f.BankIdentifierCode, 8, 11, PatBIC)
    \o Optional_compiled(f.LegalEntityIdentifier, 20, 20, PatLEI)

BranchData3_compiled(b) == Optional_compiled(b.LegalEntityIdentifier, 20, 20, PatLEI)

BranchAndFinancialInstitutionIdentification6_compiled(b) ==
    (IF IsZero_FinancialInstitutionIdentification18(b.FinancialInstitutionID) THEN <<>>
     ELSE FinancialInstitutionIdentification18_compiled(b.FinancialInstitutionID))
    \o (IF IsNilPtr(b.BranchID) THEN <<>> ELSE BranchData3_compiled(Deref(b.BranchID)))

Party44_compiled(p) ==
    (IF IsNilPtr(p.FinancialInstitutionID) THEN <<>>
     ELSE BranchAndFinancialInstitutionIdentification6_compiled(
              Deref(p.FinancialInstitutionID)))
    \o (IF IsNilPtr(p.OrganisationIdentification) THEN <<>>
        ELSE PartyIdentification135_compiled(Deref(p.OrganisationIdentification)))

GroupHeader93_compiled(g) ==
    IF Len(g.NumberOfTransactions) = 0 THEN <<>> ELSE <<PatNbOfTxs>>

CreditTransferTransaction39_compiled(c) ==
    ActiveCurrencyAndAmount_compiled(c.InterbankSettlementAmount)
    \o PartyIdentification135_compiled(c.Debtor)
    \o BranchAndFinancialInstitutionIdentification6_compiled(c.DebtorAgent)
    \o PartyIdentification135_compiled(c.Creditor)
    \o BranchAndFinancialInstitutionIdentification6_compiled(c.CreditorAgent)
    \o (IF IsNilPtr(c.UltimateDebtor) THEN <<>>
        ELSE PartyIdentification135_compiled(Deref(c.UltimateDebtor)))
    \o (IF IsNilPtr(c.UltimateCreditor) THEN <<>>
        ELSE PartyIdentification135_compiled(Deref(c.UltimateCreditor)))

RECURSIVE TransactionLoop_compiled(_, _)
TransactionLoop_compiled(txs, i) ==
    IF i >= Len(txs) THEN <<>>
    ELSE CreditTransferTransaction39_compiled(txs[i + 1])
         \o TransactionLoop_compiled(txs, i + 1)

FIToFICustomerCreditTransferV08_compiled(f) ==
    GroupHeader93_compiled(f.GroupHeader)
    \o TransactionLoop_compiled(f.CreditTransferTransactionInfo.Elems, 0)

Pacs00800108Document_compiled(d) ==
    IF IsZero_FIToFICustomerCreditTransferV08(d.FICustomerCreditTransfer) THEN <<>>
    ELSE GroupHeader93_compiled(d.FICustomerCreditTransfer.GroupHeader)

HeaderParties_compiled(b) == Party44_compiled(b.From) \o Party44_compiled(b.To)

RECURSIVE RelatedLoop_compiled(_, _)
RelatedLoop_compiled(related, i) ==
    IF i >= Len(related) THEN <<>>
    ELSE HeaderParties_compiled(related[i + 1]) \o RelatedLoop_compiled(related, i + 1)

BusinessApplicationHeaderV02_compiled(b) ==
    (IF Len(b.MessageDefinitionID) = 0 THEN <<>> ELSE <<PatMsgDef>>)
    \o HeaderParties_compiled(b)
    \o RelatedLoop_compiled(b.Related.Elems, 0)

\* the patterns the method named name compiles when called on the subject
MethodCompiled(name, s) ==
    CASE name = "GroupHeader93.Validate" -> GroupHeader93_compiled(s.V)
      [] name = "CreditTransferTransaction39.Validate" ->
            CreditTransferTransaction39_compiled(s.V)
      [] name = "FIToFICustomerCreditTransferV08.Validate" ->
            FIToFICustomerCreditTransferV08_compiled(s.V.FICustomerCreditTransfer)
      [] name = "Pacs00800108Document.Validate" -> Pacs00800108Document_compiled(s.V)
      [] name = "BusinessApplicationHeaderV02.Validate" ->
            BusinessApplicationHeaderV02_compiled(s.V)
      [] name = "Choice.Validate" /\ s.Kind = "Party44" -> Party44_compiled(s.V)
      [] name = "Structure.Validate" /\ s.Kind = "ActiveCurrencyAndAmount" ->
            ActiveCurrencyAndAmount_compiled(s.V)
      [] name = "Structure.Validate" /\ s.Kind = "PostalAddress24" ->
            PostalAddress24_compiled(s.V)
      [] name = "Structure.Validate" /\ s.Kind = "PartyIdentification135" ->
            PartyIdentification135_compiled(s.V)
      [] name = "Structure.Validate" /\ s.Kind = "FinancialInstitutionIdentification18" ->
            FinancialInstitutionIdentification18_compiled(s.V)
      [] name = "Structure.Validate" /\ s.Kind = "BranchData3" -> BranchData3_compiled(s.V)
      [] name = "Structure.Validate"
            /\ s.Kind = "BranchAndFinancialInstitutionIdentification6" ->
            BranchAndFinancialInstitutionIdentification6_compiled(s.V)
      [] OTHER -> <<>>

(***************************************************************************)
(* The trees the builder hands to the validator.  Every directly checked   *)
(* field of a structure is given a valid value ("good"), the zero value of *)
(* its Go type ("zero": the empty string, the zero structure, the nil      *)
(* pointer) or a set but malformed value ("bad").                          *)
(***************************************************************************)
S_E2E == <<"E", "2", "E">>
S_USD == <<"U", "S", "D">>
S_usd == <<"u", "s", "d">>
S_EU == <<"E", "U">>
S_SLEV == <<"S", "L", "E", "V">>
S_INDA == <<"I", "N", "D", "A">>
S_NORM == <<"N", "O", "R", "M">>
S_Test == <<"T", "e", "s", "t">>
S_CHASUS33 == <<"C", "H", "A", "S", "U", "S", "3", "3">>
S_BOFA0011 == <<"B", "O", "F", "A", "0", "0", "1", "1">>
S_INVALID == <<"I", "N", "V", "A", "L", "I", "D">>
S_IBAN == <<"G", "B", "8", "2", "W", "E", "S", "T", "1", "2", "3", "4", "5", "6", "9",
            "8", "7", "6", "5", "4", "3", "2">>
S_GB82 == <<"G", "B", "8", "2">>
S_ACC1 == <<"A", "C", "C", "1">>
S_de == <<"d", "e">>
\* the value a *time.Time points to; no Validate method looks into it
TimeValue == "time.Time"
\* the pointee of a pointer field that no Validate method reads
Opaque == "set"

PaymentIdentification7_Samples ==
    [good |-> [EndToEndID |-> S_E2E, TransactionID |-> Nil],
     zero |-> [EndToEndID |-> <<>>, TransactionID |-> Nil],
     bad |-> [EndToEndID |-> Rep("X", 36), TransactionID |-> Ptr(<<>>)]]

ActiveCurrencyAndAmount_Samples ==
    [good |-> [Value |-> 1000, Currency |-> S_USD],
     zero |-> [Value |-> 0, Currency |-> <<>>],
     bad |-> [Value |-> 1000, Currency |-> S_usd]]

ChargeBearer_Samples ==
    [good |-> S_SLEV, zero |-> <<>>, bad |-> Rep("V", 20)]

PostalAddress24_Zero ==
    [Department |-> Nil, StreetName |-> Nil, BuildingNumber |-> Nil, PostCode |-> Nil,
     TownName |-> Nil, Country |-> Nil]

Contact4_Zero == [Name |-> Nil, EmailAddress |-> Nil, PhoneNumber |-> Nil]

PartyIdentification135_Zero ==
    [Name |-> Nil, PostalAddress |-> Nil, ID |-> Nil, ContactDetails |-> Nil]

\* a party whose only fault is a name of 141 characters
PartyIdentification135_LongName ==
    [PartyIdentification135_Zero EXCEPT !.Name = Ptr(Rep("A", 141))]

\* a party with two faulty children
PartyIdentification135_BadChildren ==
    [PartyIdentification135_Zero EXCEPT
        !.Name = Ptr(S_Test),
        !.PostalAddress = Ptr([PostalAddress24_Zero EXCEPT !.Country = Ptr(S_de),
                                                           !.PostCode = Ptr(Rep("9", 17))]),
        !.ContactDetails = Ptr([Contact4_Zero EXCEPT !.Name = Ptr(<<>>)])]

PartyIdentification135_Good ==
    [PartyIdentification135_Zero EXCEPT !.Name = Ptr(S_Test)]

FinancialInstitutionIdentification18_Zero ==
    [BankIdentifierCode |-> Nil, ClearingSystemMemberID |-> Nil,
     LegalEntityIdentifier |-> Nil, Name |-> Nil]

BranchData3_Zero == [ID |-> Nil, LegalEntityIdentifier |-> Nil, Name |-> Nil]

BranchAndFinancialInstitutionIdentification6_Zero ==
    [FinancialInstitutionID |-> FinancialInstitutionIdentification18_Zero, BranchID |-> Nil]

DebtorAgent_Samples ==
    [good |-> [FinancialInstitutionID |->
                   [FinancialInstitutionIdentification18_Zero EXCEPT
                       !.BankIdentifierCode = Ptr(S_CHASUS33)],
               BranchID |-> Nil],
     zero |-> BranchAndFinancialInstitutionIdentification6_Zero,
     bad |-> [FinancialInstitutionID |->
                  [FinancialInstitutionIdentification18_Zero EXCEPT
                      !.BankIdentifierCode = Ptr(S_BOFA0011)],
              BranchID |-> Ptr([BranchData3_Zero EXCEPT !.ID = Ptr(<<>>)])]]

CreditorAgent_Samples ==
    [good |-> [FinancialInstitutionID |->
                   [FinancialInstitutionIdentification18_Zero EXCEPT
                       !.ClearingSystemMemberID = Ptr(Opaque)],
               BranchID |-> Ptr([BranchData3_Zero EXCEPT !.Name = Ptr(S_Test)])],
     zero |-> BranchAndFinancialInstitutionIdentification6_Zero,
     bad |-> [FinancialInstitutionID |->
                  [FinancialInstitutionIdentification18_Zero EXCEPT
                      !.BankIdentifierCode = Ptr(S_INVALID)],
              BranchID |-> Nil]]

PaymentTypeInfo_Samples ==
    [good |-> Ptr([InstructionPriority |-> Ptr(S_NORM), SequenceType |-> Nil]),
     zero |-> Nil,
     bad |-> Ptr([InstructionPriority |-> Ptr(Rep("P", 5)), SequenceType |-> Ptr(<<>>)])]

AccountIdentification4_Zero == [IBAN |-> Nil, Other |-> Nil]

DebtorAccount_Samples ==
    [good |-> Ptr([ID |-> [IBAN |-> Ptr(S_IBAN), Other |-> Nil],
                   Type |-> Nil, Currency |-> Ptr(S_USD), Name |-> Nil]),
     zero |-> Nil,
     bad |-> Ptr([ID |-> AccountIdentification4_Zero,
                  Type |-> Nil, Currency |-> Ptr(S_EU), Name |-> Nil])]

CreditorAccount_Samples ==
    [good |-> Ptr([ID |-> [IBAN |-> Nil, Other |-> Ptr([ID |-> S_ACC1, Issuer |-> Nil])],
                   Type |-> Nil, Currency |-> Nil, Name |-> Ptr(S_Test)]),
     zero |-> Nil,
     bad |-> Ptr([ID |-> [IBAN |-> Ptr(S_GB82), Other |-> Ptr([ID |-> <<>>, Issuer |-> Nil])],
                  Type |-> Nil, Currency |-> Nil, Name |-> Nil])]

\* the fields CreditTransferTransaction39.Validate checks
TxRequired == {"PaymentID", "InterbankSettlementAmount", "ChargeBearer", "Debtor",
               "DebtorAgent", "Creditor", "CreditorAgent"}
TxOptional == {"PaymentTypeInfo", "DebtorAccount", "CreditorAccount", "UltimateDebtor",
               "UltimateCreditor"}
TxFields == TxRequired \cup TxOptional

TxSample ==
    [PaymentID |-> PaymentIdentification7_Samples,
     InterbankSettlementAmount |-> ActiveCurrencyAndAmount_Samples,
     ChargeBearer |-> ChargeBearer_Samples,
     Debtor |-> [good |-> PartyIdentification135_Good,
                 zero |-> PartyIdentification135_Zero,
                 bad |-> PartyIdentification135_LongName],
     DebtorAgent |-> DebtorAgent_Samples,
     Creditor |-> [good |-> PartyIdentification135_Good,
                   zero |-> PartyIdentification135_Zero,
                   bad |-> PartyIdentification135_LongName],
     CreditorAgent |-> CreditorAgent_Samples,
     PaymentTypeInfo |-> PaymentTypeInfo_Samples,
     DebtorAccount |-> DebtorAccount_Samples,
     CreditorAccount |-> CreditorAccount_Samples,
     UltimateDebtor |-> [good |-> Ptr(PartyIdentification135_Good),
                         zero |-> Nil,
                         bad |-> Ptr(PartyIdentification135_BadChildren)],
     UltimateCreditor |-> [good |-> Ptr(PartyIdentification135_Zero),
                           zero |-> Nil,
                           bad |-> Ptr(PartyIdentification135_LongName)]]

\* the transaction whose field f holds the sample pick[f]
TxOf(pick) == [f \in TxFields |-> TxSample[f][pick[f]]]

\* the fields of S hold the sample v, the others a valid value
MaskPick(fields, S, v) == [f \in fields |-> IF f \in S THEN v ELSE "good"]

\* f holds its zero value, g a malformed value, the others a valid value
PairPick(fields, f, g) ==
    [h \in fields |-> IF h = f THEN "zero" ELSE IF h = g THEN "bad" ELSE "good"]

TxPicks ==
    {MaskPick(TxFields, S, v) : S \in SUBSET TxFields, v \in {"zero", "bad"}}
    \cup {PairPick(TxFields, fg[1], fg[2]) : fg \in TxFields \X TxFields}

TxTrees == {TxOf(pick) : pick \in TxPicks}

\* the fields GroupHeader93.Validate checks
GhFields == {"MessageID", "CreationDateTime", "NumberOfTransactions", "SettlementInfo"}

GhSample ==
    [MessageID |-> [good |-> <<"M", "S", "G", "1">>, zero |-> <<>>, bad |-> Rep("M", 36)],
     CreationDateTime |-> [good |-> Ptr(TimeValue), zero |-> Nil, bad |-> Nil],
     NumberOfTransactions |-> [good |-> <<"1">>, zero |-> <<>>, bad |-> <<"1", "A">>],
     SettlementInfo |-> [good |-> [SettlementMethod |-> S_INDA, SettlementAccount |-> Nil],
                         zero |-> [SettlementMethod |-> <<>>, SettlementAccount |-> Nil],
                         bad |-> [SettlementMethod |-> <<>>,
                                  SettlementAccount |-> Ptr(Opaque)]]]

GhOf(pick) == [f \in GhFields |-> GhSample[f][pick[f]]]

GhTrees == {GhOf(pick) : pick \in [GhFields -> {"good", "zero", "bad"}]}

\* the documents: a group header and a slice of at most MaxTx transactions
DocGroupHeaders ==
    {GhOf(MaskPick(GhFields, {}, "zero")),
     GhOf(MaskPick(GhFields, GhFields, "zero")),
     GhOf(MaskPick(GhFields, {"MessageID"}, "bad"))}

DocTransactions ==
    {TxOf(MaskPick(TxFields, {}, "zero")),
     TxOf(MaskPick(TxFields, {"Debtor"}, "bad")),
     TxOf(MaskPick(TxFields, TxFields, "zero"))}

SeqsUpTo(S, n) == UNION {[1..k -> S] : k \in 0..n}

DocTrees ==
    {[FICustomerCreditTransfer |-> [GroupHeader |-> g, CreditTransferTransactionInfo |-> sl]] :
        g \in DocGroupHeaders,
        sl \in {NilSlice} \cup {Slice(q) : q \in SeqsUpTo(DocTransactions, MaxTx)}}

\* the choice structures of two string alternatives
StringChoiceKinds ==
    {"InterestType1", "BalanceType10", "BalanceSubType1", "ServiceLevel8",
     "LocalInstrument2", "CategoryPurpose1", "MandateSetupReason1",
     "CashAccountType2Choice"}

ChoiceKinds == StringChoiceKinds \cup {"AccountIdentification4", "Party44"}

StringAlternatives ==
    {Nil, Ptr(<<"C", "D">>), Ptr(<<>>), Ptr(Rep("C", 36)), Ptr(Rep("C", 71))}

StringChoiceTrees == [Code : StringAlternatives, Proprietary : StringAlternatives]

AccountIdentification4_Trees ==
    [IBAN : {Nil, Ptr(S_IBAN), Ptr(S_GB82), Ptr(Rep("g", 22))},
     Other : {Nil, Ptr([ID |-> S_ACC1, Issuer |-> Nil]), Ptr([ID |-> <<>>, Issuer |-> Nil])}]

Party44_Trees ==
    [OrganisationIdentification :
        {Nil, Ptr(PartyIdentification135_Good), Ptr(PartyIdentification135_LongName)},
     FinancialInstitutionID :
        {Nil, Ptr(DebtorAgent_Samples.good), Ptr(DebtorAgent_Samples.bad),
         Ptr(BranchAndFinancialInstitutionIdentification6_Zero)}]

\* the business application headers: the parties are a financial
\* institution with a valid BIC, no alternative at all, and both alternatives
\* with a BIC of the wrong shape and a name that is too long
S_pacs008 == <<"p", "a", "c", "s", ".", "0", "0", "8", ".", "0", "0", "1", ".", "0", "8">>

Party44_Good ==
    [OrganisationIdentification |-> Nil, FinancialInstitutionID |-> Ptr(DebtorAgent_Samples.good)]
Party44_Zero == [OrganisationIdentification |-> Nil, FinancialInstitutionID |-> Nil]
Party44_Bad ==
    [OrganisationIdentification |-> Ptr(PartyIdentification135_LongName),
     FinancialInstitutionID |-> Ptr(DebtorAgent_Samples.bad)]

ImplementationSpecification1_Values ==
    {Nil,
     Ptr([Registry |-> Ptr(S_Test), ID |-> Ptr(S_ACC1)]),
     Ptr([Registry |-> Nil, ID |-> Ptr(<<>>)]),
     Ptr([Registry |-> Ptr(Rep("R", 351)), ID |-> Ptr(S_ACC1)])}

BusinessApplicationHeader5_Good ==
    [CharacterSet |-> Nil, From |-> Party44_Good, To |-> Party44_Good,
     BusinessMessageID |-> S_E2E, MessageDefinitionID |-> S_pacs008,
     BusinessService |-> Nil, CreationDate |-> Ptr(TimeValue)]
BusinessApplicationHeader5_Bad ==
    [BusinessApplicationHeader5_Good EXCEPT
        !.From = Party44_Bad, !.MessageDefinitionID = Rep("m", 36), !.CreationDate = Nil]

BusinessApplicationHeaderV02_Trees ==
    [CharacterSet : {Nil, Ptr(<<>>), Ptr(Rep("C", 36))},
     From : {Party44_Good, Party44_Zero, Party44_Bad},
     To : {Party44_Good, Party44_Bad},
     BusinessMessageID : {<<>>, S_E2E, Rep("M", 36)},
     MessageDefinitionID : {<<>>, S_pacs008, S_Test},
     BusinessService : {Nil, Ptr(S_Test)},
     MarketPractice : ImplementationSpecification1_Values,
     CreationDate : {Nil, Ptr(TimeValue)},
     Related : {NilSlice,
                Slice(<<BusinessApplicationHeader5_Good>>),
                Slice(<<BusinessApplicationHeader5_Bad, BusinessApplicationHeader5_Good,
                        BusinessApplicationHeader5_Bad>>)}]

(***************************************************************************)
(* The structures below the transaction, validated on their own.  Every    *)
(* optional string is nil, set and valid, or set and malformed.            *)
(***************************************************************************)
S_US == <<"U", "S">>
S_USDX == <<"U", "S", "D", "X">>
\* a well-formed LEI: 18 alphanumerics and 2 digits
S_LEI == Rep("A", 18) \o <<"1", "2">>

PostalAddress24_Trees ==
    [Department : {Nil, Ptr(S_Test), Ptr(Rep("D", 71))},
     StreetName : {Nil, Ptr(S_Test), Ptr(<<>>)},
     BuildingNumber : {Nil, Ptr(<<"1">>), Ptr(Rep("1", 17))},
     PostCode : {Nil, Ptr(<<"9">>), Ptr(Rep("9", 17))},
     TownName : {Nil, Ptr(S_Test), Ptr(Rep("T", 36))},
     Country : {Nil, Ptr(S_US), Ptr(S_de)}]

Contact4_Trees ==
    [Name : {Nil, Ptr(S_Test), Ptr(<<>>), Ptr(Rep("N", 141))},
     EmailAddress : {Nil, Ptr(S_Test), Ptr(Rep("e", 2049))},
     PhoneNumber : {Nil, Ptr(<<"1">>), Ptr(Rep("1", 36))}]

\* the values of a Party38 pointer: nil, or a structure with each of
\* OrganizationID and PrivateID nil or set
Party38_Values ==
    {Nil} \cup {Ptr(p) : p \in [OrganizationID : {Nil, Ptr(Opaque)},
                                 PrivateID : {Nil, Ptr(Opaque)}]}

\* a name of 140 characters, one of them an accented letter of two bytes
S_Accented140 == Rep("A", 139) \o <<"e_acute">>

PartyIdentification135_Trees ==
    [Name : {Nil, Ptr(S_Test), Ptr(<<>>), Ptr(Rep("A", 141)), Ptr(S_Accented140)},
     PostalAddress : {Nil, Ptr(PostalAddress24_Zero),
                      Ptr([PostalAddress24_Zero EXCEPT !.Country = Ptr(S_de)])},
     ID : Party38_Values,
     ContactDetails : {Nil, Ptr(Contact4_Zero),
                       Ptr([Contact4_Zero EXCEPT !.Name = Ptr(<<>>)])}]

BranchData3_Trees ==
    [ID : {Nil, Ptr(<<"B", "1">>), Ptr(<<>>), Ptr(Rep("B", 36))},
     LegalEntityIdentifier : {Nil, Ptr(S_LEI), Ptr(Rep("A", 20))},
     Name : {Nil, Ptr(S_Test), Ptr(Rep("N", 141))}]

PaymentTypeInfo28_Trees ==
    [InstructionPriority : {Nil, Ptr(S_NORM), Ptr(<<>>), Ptr(Rep("P", 5))},
     SequenceType : {Nil, Ptr(<<"F", "R", "S", "T">>), Ptr(<<>>), Ptr(Rep("S", 5))}]

\* the values of a *string BICFI: prefixes of a well-formed BIC with branch
\* and of the texts that differ from it in one character, and the BICs of
\* the tests
BICTemplate == <<"C", "H", "A", "S", "U", "S", "3", "3", "X", "X", "X", "9">>
BICSubstitutes == {"0", "A", "a", "e_acute"}
BICStrings ==
    {SubSeq(t, 1, n) :
        n \in 0..Len(BICTemplate),
        t \in {BICTemplate}
               \cup {[BICTemplate EXCEPT ![p] = c] :
                        p \in 1..Len(BICTemplate), c \in BICSubstitutes}}
    \cup {S_CHASUS33, S_BOFA0011, S_INVALID}

FinancialInstitutionIdentification18_Trees ==
    [BankIdentifierCode : {Nil, Ptr(S_CHASUS33), Ptr(S_INVALID)},
     ClearingSystemMemberID : {Nil},
     LegalEntityIdentifier : {Nil, Ptr(S_LEI), Ptr(Rep("A", 20))},
     Name : {Nil, Ptr(S_Test), Ptr(<<>>)}]
    \cup {[FinancialInstitutionIdentification18_Zero EXCEPT !.BankIdentifierCode = Ptr(b)] :
             b \in BICStrings}

\* the currency codes: every text of at most MaxCodeLen characters over a
\* small alphabet, and the codes of the tests
CodeAlphabet == {"U", "S", "u", "1", "e_acute"}
CurrencyStrings ==
    SeqsUpTo(CodeAlphabet, MaxCodeLen) \cup {S_USD, S_usd, S_US, S_EU, S_USDX}

ActiveCurrencyAndAmount_Trees == [Value : {-1, 0, 1, 1000}, Currency : CurrencyStrings]

\* the dates: every combination of a year, a month and a day written with
\* four, two and two digits, and texts of another shape
DateYears == {<<"2", "0", "2", "3">>,
              <<"2", "0", "2", "4">>,
              <<"1", "9", "0", "0">>,
              <<"2", "0", "0", "0">>}
DateMonths == {<<"0", "0">>,
               <<"0", "1">>,
               <<"0", "2">>,
               <<"0", "4">>,
               <<"1", "2">>,
               <<"1", "3">>}
DateDays == {<<"0", "0">>,
             <<"0", "1">>,
             <<"2", "8">>,
             <<"2", "9">>,
             <<"3", "0">>,
             <<"3", "1">>,
             <<"3", "2">>,
             <<"4", "5">>}
MalformedDates ==
    {<<"2", "5", "-", "1", "2", "-", "2", "0", "2", "3">>,
     <<"2", "0", "2", "3", "-", "1", "2", "-", "5">>,
     <<"2", "0", "2", "3", "/", "1", "2", "/", "2", "5">>,
     <<"2", "0", "2", "3", "-", "1", "2", "-", "2", "5", "T">>,
     <<"2", "0", "2", "a", "-", "1", "2", "-", "2", "5">>,
     <<"2", "0", "2", "3", "-", "1", "2", "-", "2", "5", "5">>}
DateStrings ==
    {y \o <<"-">> \o m \o <<"-">> \o d : y \in DateYears, m \in DateMonths, d \in DateDays}
    \cup MalformedDates

\* the datetimes: a date, a separator, a time of day and a suffix
DateParts ==
    {<<"2", "0", "2", "3", "-", "1", "2", "-", "2", "5">>,
     <<"2", "0", "2", "3", "-", "1", "3", "-", "4", "5">>,
     <<"2", "0", "2", "4", "-", "0", "2", "-", "2", "9">>,
     <<"2", "0", "2", "3", "-", "0", "2", "-", "2", "9">>,
     <<"2", "0", "2", "3", "-", "0", "2", "-", "3", "0">>,
     <<"2", "0", "2", "3", "-", "0", "4", "-", "3", "1">>,
     <<"2", "0", "2", "3", "-", "0", "0", "-", "1", "0">>,
     <<"2", "0", "2", "3", "-", "1", "2", "-", "0", "0">>,
     <<"1", "9", "0", "0", "-", "0", "2", "-", "2", "9">>}
DateTimeSeparators == {"T", " "}
TimeParts ==
    {<<"1", "4", ":", "3", "0", ":", "0", "0">>,
     <<"2", "5", ":", "7", "0", ":", "9", "9">>,
     <<"2", "3", ":", "5", "9", ":", "5", "9">>,
     <<"2", "4", ":", "0", "0", ":", "0", "0">>,
     <<"1", "2", ":", "6", "0", ":", "0", "0">>,
     <<"1", "2", ":", "0", "0", ":", "6", "0">>}
DateTimeSuffixes ==
    {<<>>,
     <<".", "1", "2", "3">>,
     <<"Z">>,
     <<".", "1", "2", "3", "Z">>,
     <<".", "1", "2">>,
     <<".", "1", "2", "3", "4">>,
     <<",", "1", "2", "3">>,
     <<".", "1", "2", "3", "z">>,
     <<"+", "0", "2", ":", "0", "0">>}
DateTimeStrings ==
    {d \o <<sep>> \o t \o x :
        d \in DateParts, sep \in DateTimeSeparators, t \in TimeParts,
        x \in DateTimeSuffixes}
    \cup {<<>>}

PaymentIdentification7_Trees ==
    [EndToEndID : {<<>>, S_E2E, Rep("X", 36)},
     TransactionID : {Nil, Ptr(S_E2E), Ptr(<<>>)}]

GenericIdentification30_Trees ==
    [ID : {<<>>, S_ACC1, <<"A">>, Rep("I", 5)},
     Issuer : {<<>>, S_Test, Rep("I", 36)},
     SchemeName : {Nil, Ptr(S_Test), Ptr(<<>>)}]

GenericAccountIdentification1_Trees ==
    [ID : {<<>>, S_ACC1, Rep("A", 35)},
     Issuer : {Nil, Ptr(S_Test), Ptr(<<>>)}]

\* the values of a *CashAccountType2Choice: nil, or a structure with each
\* of Code and Proprietary nil or set
CashAccountType2Choice_Values ==
    {Nil} \cup {Ptr(c) : c \in [Code : {Nil, Ptr(<<"C", "D">>)},
                                 Proprietary : {Nil, Ptr(<<"C", "D">>)}]}

CashAccount38_Trees ==
    [ID : {[IBAN |-> Ptr(S_IBAN), Other |-> Nil],
           [IBAN |-> Nil, Other |-> Ptr([ID |-> S_ACC1, Issuer |-> Nil])],
           AccountIdentification4_Zero},
     Type : CashAccountType2Choice_Values,
     Currency : {Nil, Ptr(S_USD), Ptr(S_EU), Ptr(S_usd)},
     Name : {Nil, Ptr(S_Test)}]

BranchAndFinancialInstitutionIdentification6_Trees ==
    [FinancialInstitutionID :
        {FinancialInstitutionIdentification18_Zero,
         [FinancialInstitutionIdentification18_Zero EXCEPT
             !.BankIdentifierCode = Ptr(S_CHASUS33)],
         [FinancialInstitutionIdentification18_Zero EXCEPT
             !.BankIdentifierCode = Ptr(S_INVALID), !.Name = Ptr(<<>>)]},
     BranchID :
        {Nil,
         Ptr([BranchData3_Zero EXCEPT !.ID = Ptr(<<"B", "1">>)]),
         Ptr([BranchData3_Zero EXCEPT !.ID = Ptr(<<>>), !.Name = Ptr(Rep("N", 141))])}]

\* the texts handed to the primitive constraints
IdentifierStrings == {S_IBAN, Rep("g", 22), S_LEI, Rep("A", 20)}

StringInputs == CurrencyStrings \cup BICStrings \cup DateStrings \cup DateTimeStrings

\* the texts handed to the other primitive constraints
TextInputs == CurrencyStrings \cup IdentifierStrings

\* the values validateRequired is called with for a text: the text, a
\* pointer to it and the nil pointer
RequiredArguments(s) ==
    {ReflectString(s), ReflectPtr(Ptr(s), Len(s) = 0), ReflectPtr(Nil, TRUE)}

\* the minimum and maximum lengths validateStringLength is called with
LengthBounds == {<<1, 35>>, <<3, 3>>, <<15, 34>>}

\* a pattern regexp.Compile rejects (missing closing bracket)
PatBroken == "^[A-Z{3}$"

\* the patterns validatePattern is called with
CalledPatterns == {PatCurrency, PatDate, PatBroken}

\* the lists of values validateEnumeration is called with
EnumerationLists == {<<>>, <<S_USD>>, <<S_US, S_USD>>}

\* the field names the primitive constraints are called with
PrimitiveFieldNames == {"Ccy", "BICFI"}

Subject(kind, v) == [Kind |-> kind, V |-> v]

Subjects ==
    {Subject("GroupHeader93", g) : g \in GhTrees}
    \cup {Subject("CreditTransferTransaction39", c) : c \in TxTrees}
    \cup {Subject("Pacs00800108Document", d) : d \in DocTrees}
    \cup {Subject(k, c) : k \in StringChoiceKinds, c \in StringChoiceTrees}
    \cup {Subject("AccountIdentification4", a) : a \in AccountIdentification4_Trees}
    \cup {Subject("Party44", p) : p \in Party44_Trees}
    \cup {Subject("BusinessApplicationHeaderV02", b) :
             b \in BusinessApplicationHeaderV02_Trees}
    \cup {Subject("PostalAddress24", p) : p \in PostalAddress24_Trees}
    \cup {Subject("Contact4", c) : c \in Contact4_Trees}
    \cup {Subject("PartyIdentification135", p) : p \in PartyIdentification135_Trees}
    \cup {Subject("FinancialInstitutionIdentification18", f) :
             f \in FinancialInstitutionIdentification18_Trees}
    \cup {Subject("BranchData3", b) : b \in BranchData3_Trees}
    \cup {Subject("PaymentTypeInfo28", p) : p \in PaymentTypeInfo28_Trees}
    \cup {Subject("ActiveCurrencyAndAmount", a) : a \in ActiveCurrencyAndAmount_Trees}
    \cup {Subject("PaymentIdentification7", p) : p \in PaymentIdentification7_Trees}
    \cup {Subject("GenericIdentification30", g) : g \in GenericIdentification30_Trees}
    \cup {Subject("GenericAccountIdentification1", g) :
             g \in GenericAccountIdentification1_Trees}
    \cup {Subject("CashAccount38", c) : c \in CashAccount38_Trees}
    \cup {Subject("BranchAndFinancialInstitutionIdentification6", b) :
             b \in BranchAndFinancialInstitutionIdentification6_Trees}
    \cup {Subject("string", s) : s \in StringInputs}
    \cup {Subject("text", s) : s \in TextInputs}

(***************************************************************************)
(* The state machine: a caller holds one tree (subject), calls Validate    *)
(* on it (op is the method called last, ret the error it returned, calls   *)
(* the number of calls so far, passed the field name the last call was     *)
(* given, empty for a method, compiled the patterns the last call          *)
(* compiled) and renders the list it got with Error()                      *)
(* (text, nil until rendered).                                             *)
(***************************************************************************)
\* the Validate method of a choice structure, by the type of the receiver
ChoiceValidate(kind, v) ==
    CASE kind = "InterestType1" -> InterestType1_Validate(v)
      [] kind = "BalanceType10" -> BalanceType10_Validate(v)
      [] kind = "BalanceSubType1" -> BalanceSubType1_Validate(v)
      [] kind = "ServiceLevel8" -> ServiceLevel8_Validate(v)
      [] kind = "LocalInstrument2" -> LocalInstrument2_Validate(v)
      [] kind = "CategoryPurpose1" -> CategoryPurpose1_Validate(v)
      [] kind = "MandateSetupReason1" -> MandateSetupReason1_Validate(v)
      [] kind = "CashAccountType2Choice" -> CashAccountType2Choice_Validate(v)
      [] kind = "AccountIdentification4" -> AccountIdentification4_Validate(v)
      [] kind = "Party44" -> Party44_Validate(v)

\* the structures below the transaction that have a Validate method
StructureKinds ==
    {"PostalAddress24", "Contact4", "PartyIdentification135",
     "FinancialInstitutionIdentification18", "BranchData3", "PaymentTypeInfo28",
     "ActiveCurrencyAndAmount", "PaymentIdentification7", "GenericIdentification30",
     "GenericAccountIdentification1", "CashAccount38",
     "BranchAndFinancialInstitutionIdentification6"}

\* the list such a structure's Validate method collects, by the type of the
\* receiver
StructureErrs(kind, v) ==
    CASE kind = "PostalAddress24" -> PostalAddress24_errs(v)
      [] kind = "Contact4" -> Contact4_errs(v)
      [] kind = "PartyIdentification135" -> PartyIdentification135_errs(v)
      [] kind = "FinancialInstitutionIdentification18" ->
            FinancialInstitutionIdentification18_errs(v)
      [] kind = "BranchData3" -> BranchData3_errs(v)
      [] kind = "PaymentTypeInfo28" -> PaymentTypeInfo28_errs(v)
      [] kind = "ActiveCurrencyAndAmount" -> ActiveCurrencyAndAmount_errs(v)
      [] kind = "PaymentIdentification7" -> PaymentIdentification7_errs(v)
      [] kind = "GenericIdentification30" -> GenericIdentification30_errs(v)
      [] kind = "GenericAccountIdentification1" -> GenericAccountIdentification1_errs(v)
      [] kind = "CashAccount38" -> CashAccount38_errs(v)
      [] kind = "BranchAndFinancialInstitutionIdentification6" ->
            BranchAndFinancialInstitutionIdentification6_errs(v)

\* its Validate method
StructureValidate(kind, v) == Return(StructureErrs(kind, v))

TreeAfterValidateNormalises(t) ==
    IF t.Kind = "CreditTransferTransaction39"
    THEN [t EXCEPT !.V.ChargeBearer = S_SLEV]
    ELSE IF t.Kind = "GroupHeader93"
         THEN [t EXCEPT !.V.NumberOfTransactions = <<"1">>]
         ELSE t

\* the receiver after a Validate call: no Validate method assigns to a
\* field of its receiver or of anything reachable from it
TreeAfterValidate(t) == t

Init ==
    /\ subject \in Subjects
    /\ op = "none"
    /\ ret = NilError
    /\ calls = 0
    /\ text = Nil
    /\ passed = ""
    /\ compiled = <<>>
    /\ trees = <<>>
    /\ pc = <<>>
    /\ frames = <<>>
    /\ results = <<>>
    /\ wire = <<>>
    /\ sent = <<>>

\* the effect of one call of the function named name with the field name
\* fieldName that returns err and compiles the patterns
CalledWith(name, fieldName, err, patterns) ==
    /\ calls < MaxCalls
    /\ ret.Type # "panic"
    /\ op' = name
    /\ ret' = err
    /\ calls' = calls + 1
    /\ subject' = TreeAfterValidate(subject)
    /\ text' = Nil
    /\ passed' = fieldName
    /\ compiled' = patterns
    /\ UNCHANGED goroutineVars
    /\ UNCHANGED codecVars

\* the effect of one call of the method named name, which takes no field
\* name, that returns err
Called(name, err) == CalledWith(name, "", err, MethodCompiled(name, subject))

GroupHeader93Validate ==
    /\ subject.Kind = "GroupHeader93"
    /\ Called("GroupHeader93.Validate", GroupHeader93_Validate(subject.V))

CreditTransferTransaction39Validate ==
    /\ subject.Kind = "CreditTransferTransaction39"
    /\ Called("CreditTransferTransaction39.Validate",
              CreditTransferTransaction39_Validate(subject.V))

FIToFICustomerCreditTransferV08Validate ==
    /\ subject.Kind = "Pacs00800108Document"
    /\ Called("FIToFICustomerCreditTransferV08.Validate",
              FIToFICustomerCreditTransferV08_Validate(subject.V.FICustomerCreditTransfer))

Pacs00800108DocumentValidate ==
    /\ subject.Kind = "Pacs00800108Document"
    /\ Called("Pacs00800108Document.Validate", Pacs00800108Document_Validate(subject.V))

BusinessApplicationHeaderV02Validate ==
    /\ subject.Kind = "BusinessApplicationHeaderV02"
    /\ Called("BusinessApplicationHeaderV02.Validate",
              BusinessApplicationHeaderV02_Validate(subject.V))

ChoiceStructureValidate ==
    /\ subject.Kind \in ChoiceKinds
    /\ Called("Choice.Validate", ChoiceValidate(subject.Kind, subject.V))

LeafStructureValidate ==
    /\ subject.Kind \in StructureKinds
    /\ Called("Structure.Validate", StructureValidate(subject.Kind, subject.V))

\* the primitive constraints, called on a text
ValidateCurrencyCall ==
    /\ subject.Kind = "string"
    /\ \E fieldName \in PrimitiveFieldNames :
          CalledWith("validateCurrency", fieldName,
                     validateCurrency(subject.V, fieldName),
                     Composite_compiled(subject.V, 3, 3, PatCurrency))

ValidateCountryCodeCall ==
    /\ subject.Kind = "text"
    /\ \E fieldName \in PrimitiveFieldNames :
          CalledWith("validateCountryCode", fieldName,
                     validateCountryCode(subject.V, fieldName),
                     Composite_compiled(subject.V, 2, 2, PatCountry))

ValidateIBANCall ==
    /\ subject.Kind = "text"
    /\ \E fieldName \in PrimitiveFieldNames :
          CalledWith("validateIBAN", fieldName,
                     validateIBAN(subject.V, fieldName),
                     Composite_compiled(subject.V, 15, 34, PatIBAN))

ValidateLEICall ==
    /\ subject.Kind = "text"
    /\ \E fieldName \in PrimitiveFieldNames :
          CalledWith("validateLEI", fieldName,
                     validateLEI(subject.V, fieldName),
                     Composite_compiled(subject.V, 20, 20, PatLEI))

ValidateRequiredCall ==
    /\ subject.Kind = "text"
    /\ \E fieldName \in PrimitiveFieldNames : \E value \in RequiredArguments(subject.V) :
          CalledWith("validateRequired", fieldName,
                     validateRequired(value, fieldName),
                     <<>>)

ValidateStringLengthCall ==
    /\ subject.Kind = "text"
    /\ \E fieldName \in PrimitiveFieldNames : \E b \in LengthBounds :
          CalledWith("validateStringLength", fieldName,
                     validateStringLength(subject.V, b[1], b[2], fieldName),
                     <<>>)

ValidatePatternCall ==
    /\ subject.Kind = "text"
    /\ \E fieldName \in PrimitiveFieldNames : \E pattern \in CalledPatterns :
          CalledWith("validatePattern", fieldName,
                     validatePattern(subject.V, pattern, fieldName),
                     <<pattern>>)

ValidateEnumerationCall ==
    /\ subject.Kind = "text"
    /\ \E fieldName \in PrimitiveFieldNames : \E validValues \in EnumerationLists :
          CalledWith("validateEnumeration", fieldName,
                     validateEnumeration(subject.V, validValues, fieldName),
                     <<>>)

ValidateBICCall ==
    /\ subject.Kind = "string"
    /\ \E fieldName \in PrimitiveFieldNames :
          CalledWith("validateBIC", fieldName,
                     validateBIC(subject.V, fieldName),
                     Composite_compiled(subject.V, 8, 11, PatBIC))

ValidateDateCall ==
    /\ subject.Kind = "string"
    /\ \E fieldName \in PrimitiveFieldNames :
          CalledWith("validateDate", fieldName,
                     validateDate(subject.V, fieldName),
                     validateDate_compiled(subject.V))

ValidateDateTimeCall ==
    /\ subject.Kind = "string"
    /\ \E fieldName \in PrimitiveFieldNames :
          CalledWith("validateDateTime", fieldName,
                     validateDateTime(subject.V, fieldName),
                     validateDateTime_compiled(subject.V))

\* the caller renders the ValidationErrors it holds (the empty list when
\* Validate returned nil or was not called yet)
RenderErrors ==
    /\ text = Nil
    /\ ret.Type # "panic"
    /\ text' = Ptr(ValidationErrors_Error(ret.Errs))
    /\ UNCHANGED <<subject, op, ret, calls, passed, compiled>>
    /\ UNCHANGED goroutineVars
    /\ UNCHANGED codecVars

Next ==
    \/ GroupHeader93Validate
    \/ CreditTransferTransaction39Validate
    \/ FIToFICustomerCreditTransferV08Validate
    \/ Pacs00800108DocumentValidate
    \/ BusinessApplicationHeaderV02Validate
    \/ ChoiceStructureValidate
    \/ LeafStructureValidate
    \/ ValidateRequiredCall
    \/ ValidateStringLengthCall
    \/ ValidatePatternCall
    \/ ValidateEnumerationCall
    \/ ValidateCurrencyCall
    \/ ValidateCountryCodeCall
    \/ ValidateBICCall
    \/ ValidateIBANCall
    \/ ValidateLEICall
    \/ ValidateDateCall
    \/ ValidateDateTimeCall
    \/ RenderErrors

Spec == Init /\ [][Next]_vars

(***************************************************************************)
(* Concurrent validation: every goroutine calls                            *)
(* FIToFICustomerCreditTransferV08.Validate on a tree of its own, and the  *)
(* statements of the calls interleave.  pc is the statement a goroutine is *)
(* at, frames the local variables errs and i of the calls, results what    *)
(* the calls returned.  The calls a statement makes (GroupHeader93,        *)
(* CreditTransferTransaction39) work on their arguments and locals only.   *)
(***************************************************************************)
Goroutines == 1..NumGoroutines

\* the trees the goroutines validate
ConcTrees ==
    {[GroupHeader |-> GhOf(MaskPick(GhFields, {}, "zero")),
      CreditTransferTransactionInfo |->
          Slice(<<TxOf(MaskPick(TxFields, {"Debtor"}, "bad"))>>)],
     [GroupHeader |-> GhOf(MaskPick(GhFields, GhFields, "zero")),
      CreditTransferTransactionInfo |-> NilSlice],
     [GroupHeader |-> GhOf(MaskPick(GhFields, {}, "zero")),
      CreditTransferTransactionInfo |->
          Slice(<<TxOf(MaskPick(TxFields, {}, "zero")),
                  TxOf(MaskPick(TxFields, TxFields, "zero"))>>)],
     [GroupHeader |-> GhOf(MaskPick(GhFields, {"MessageID"}, "bad")),
      CreditTransferTransactionInfo |-> Slice(<<TxOf(MaskPick(TxFields, {}, "zero"))>>)]}

FrameOfShared(g) == 1

\* the frame that holds the locals of the call goroutine g makes: errs and
\* i are declared inside Validate, so every call has a frame of its own
FrameOf(g) == g

InitConc ==
    /\ subject = Subject("none", <<>>)
    /\ op = "none"
    /\ ret = NilError
    /\ calls = 0
    /\ text = Nil
    /\ passed = ""
    /\ compiled = <<>>
    /\ trees \in [Goroutines -> ConcTrees]
    /\ pc = [g \in Goroutines |-> "start"]
    /\ frames = [g \in Goroutines |-> [errs |-> <<>>, i |-> 0]]
    /\ results = [g \in Goroutines |-> NilError]
    /\ wire = <<>>
    /\ sent = <<>>

\* "var errs ValidationErrors"
DeclareErrs(g) ==
    /\ pc[g] = "start"
    /\ frames' = [frames EXCEPT ![FrameOf(g)].errs = <<>>]
    /\ pc' = [pc EXCEPT ![g] = "header"]
    /\ UNCHANGED <<trees, results>>
    /\ UNCHANGED callerVars
    /\ UNCHANGED codecVars

\* "if err := f.GroupHeader.Validate(); err != nil { errs = append(...) }"
ValidateHeader(g) ==
    /\ pc[g] = "header"
    /\ frames' = [frames EXCEPT ![FrameOf(g)].errs =
                      @ \o Wrapped(<<"GroupHeader">>,
                                   GroupHeader93_Validate(trees[g].GroupHeader))]
    /\ pc' = [pc EXCEPT ![g] = "branch"]
    /\ UNCHANGED <<trees, results>>
    /\ UNCHANGED callerVars
    /\ UNCHANGED codecVars

\* "if len(f.CreditTransferTransactionInfo) == 0 { errs = append(...) }
\*  else { for i, tx := range ... "
CheckEmpty(g) ==
    /\ pc[g] = "branch"
    /\ IF Len(trees[g].CreditTransferTransactionInfo.Elems) = 0
       THEN /\ frames' = [frames EXCEPT ![FrameOf(g)].errs =
                             @ \o <<VE(<<"CreditTransferTransactionInfo">>,
                                       <<"at least one credit transfer transaction is required">>)>>]
            /\ pc' = [pc EXCEPT ![g] = "return"]
       ELSE /\ frames' = [frames EXCEPT ![FrameOf(g)].i = 0]
            /\ pc' = [pc EXCEPT ![g] = "loop"]
    /\ UNCHANGED <<trees, results>>
    /\ UNCHANGED callerVars
    /\ UNCHANGED codecVars

\* one iteration of the range loop, or its end
Iterate(g) ==
    /\ pc[g] = "loop"
    /\ LET txs == trees[g].CreditTransferTransactionInfo.Elems
           i == frames[FrameOf(g)].i
       IN  IF i < Len(txs)
           THEN /\ frames' = [frames EXCEPT
                                 ![FrameOf(g)].errs =
                                     @ \o Wrapped(IndexedField(i),
                                                  CreditTransferTransaction39_Validate(
                                                      txs[i + 1])),
                                 ![FrameOf(g)].i = i + 1]
                /\ pc' = pc
           ELSE /\ pc' = [pc EXCEPT ![g] = "return"]
                /\ frames' = frames
    /\ UNCHANGED <<trees, results>>
    /\ UNCHANGED callerVars
    /\ UNCHANGED codecVars

\* "if errs.HasErrors() { return errs }; return nil"
ReturnErrs(g) ==
    /\ pc[g] = "return"
    /\ results' = [results EXCEPT ![g] = Return(frames[FrameOf(g)].errs)]
    /\ pc' = [pc EXCEPT ![g] = "done"]
    /\ UNCHANGED <<trees, frames>>
    /\ UNCHANGED callerVars
    /\ UNCHANGED codecVars

NextConc ==
    \E g \in Goroutines :
        \/ DeclareErrs(g)
        \/ ValidateHeader(g)
        \/ CheckEmpty(g)
        \/ Iterate(g)
        \/ ReturnErrs(g)

SpecConc == InitConc /\ [][NextConc]_vars

(***************************************************************************)
(* The codec: encoding/xml, driven by the xml tags of the structs.  A wire *)
(* element is [Tag, Attrs, Text, Children]; its text is a sequence of wire *)
(* tokens, one per character or character reference.                       *)
(***************************************************************************)
\* one tagged field of a struct: its name, the element or attribute name
\* of its tag, how the codec encodes it and, for a struct, the struct type
XMLField(name, tag, kind, type) ==
    [Name |-> name, Tag |-> tag, Kind |-> kind, Type |-> type]

\* the tagged fields of a struct type, in declaration order (the fields a
\* Validate method reads); every pointer field is tagged omitempty
XMLFields(type) ==
    CASE type = "CreditTransferTransaction39" ->
            <<XMLField("PaymentID", "PmtId", "struct", "PaymentIdentification7"),
              XMLField("PaymentTypeInfo", "PmtTpInf", "*struct", "PaymentTypeInfo28"),
              XMLField("InterbankSettlementAmount", "IntrBkSttlmAmt", "struct",
                       "ActiveCurrencyAndAmount"),
              XMLField("ChargeBearer", "ChrgBr", "string", ""),
              XMLField("UltimateDebtor", "UltmtDbtr", "*struct", "PartyIdentification135"),
              XMLField("Debtor", "Dbtr", "struct", "PartyIdentification135"),
              XMLField("DebtorAccount", "DbtrAcct", "*struct", "CashAccount38"),
              XMLField("DebtorAgent", "DbtrAgt", "struct",
                       "BranchAndFinancialInstitutionIdentification6"),
              XMLField("CreditorAgent", "CdtrAgt", "struct",
                       "BranchAndFinancialInstitutionIdentification6"),
              XMLField("Creditor", "Cdtr", "struct", "PartyIdentification135"),
              XMLField("CreditorAccount", "CdtrAcct", "*struct", "CashAccount38"),
              XMLField("UltimateCreditor", "UltmtCdtr", "*struct",
                       "PartyIdentification135")>>
      [] type = "PaymentIdentification7" ->
            <<XMLField("EndToEndID", "EndToEndId", "string", ""),
              XMLField("TransactionID", "TxId", "*string", "")>>
      [] type = "ActiveCurrencyAndAmount" ->
            <<XMLField("Value", "", "chardata", ""),
              XMLField("Currency", "Ccy", "attr", "")>>
      [] type = "PartyIdentification135" ->
            <<XMLField("Name", "Nm", "*string", ""),
              XMLField("PostalAddress", "PstlAdr", "*struct", "PostalAddress24"),
              XMLField("ID", "Id", "*struct", "Party38"),
              XMLField("ContactDetails", "CtctDtls", "*struct", "Contact4")>>
      [] type = "PostalAddress24" ->
            <<XMLField("Department", "Dept", "*string", ""),
              XMLField("StreetName", "StrtNm", "*string", ""),
              XMLField("BuildingNumber", "BldgNb", "*string", ""),
              XMLField("PostCode", "PstCd", "*string", ""),
              XMLField("TownName", "TwnNm", "*string", ""),
              XMLField("Country", "Ctry", "*string", "")>>
      [] type = "Party38" ->
            <<XMLField("OrganizationID", "OrgId", "*opaque", ""),
              XMLField("PrivateID", "PrvtId", "*opaque", "")>>
      [] type = "Contact4" ->
            <<XMLField("Name", "Nm", "*string", ""),
              XMLField("PhoneNumber", "PhneNb", "*string", ""),
              XMLField("EmailAddress", "EmailAdr", "*string", "")>>
      [] type = "BranchAndFinancialInstitutionIdentification6" ->
            <<XMLField("FinancialInstitutionID", "FinInstnId", "struct",
                       "FinancialInstitutionIdentification18"),
              XMLField("BranchID", "BrnchId", "*struct", "BranchData3")>>
      [] type = "FinancialInstitutionIdentification18" ->
            <<XMLField("BankIdentifierCode", "BICFI", "*string", ""),
              XMLField("ClearingSystemMemberID", "ClrSysMmbId", "*opaque", ""),
              XMLField("LegalEntityIdentifier", "LEI", "*string", ""),
              XMLField("Name", "Nm", "*string", "")>>
      [] type = "BranchData3" ->
            <<XMLField("ID", "Id", "*string", ""),
              XMLField("LegalEntityIdentifier", "LEI", "*string", ""),
              XMLField("Name", "Nm", "*string", "")>>
      [] type = "PaymentTypeInfo28" ->
            <<XMLField("InstructionPriority", "InstrPrty", "*string", ""),
              XMLField("SequenceType", "SeqTp", "*string", "")>>
      [] type = "CashAccount38" ->
            <<XMLField("ID", "Id", "struct", "AccountIdentification4"),
              XMLField("Type", "Tp", "*struct", "CashAccountType2Choice"),
              XMLField("Currency", "Ccy", "*string", ""),
              XMLField("Name", "Nm", "*string", "")>>
      [] type = "AccountIdentification4" ->
            <<XMLField("IBAN", "IBAN", "*string", ""),
              XMLField("Other", "Othr", "*struct", "GenericAccountIdentification1")>>
      [] type = "GenericAccountIdentification1" ->
            <<XMLField("ID", "Id", "string", ""),
              XMLField("Issuer", "Issr", "*string", "")>>
      [] type = "CashAccountType2Choice" ->
            <<XMLField("Code", "Cd", "*string", ""),
              XMLField("Proprietary", "Prtry", "*string", "")>>

\* the characters XML cannot carry: a control character such as U+0001
NotInCharacterRange == {"ctrl_01"}

\* xml.EscapeText: a markup character is written as a character reference,
\* a character XML cannot carry as U+FFFD
EscapeChar(c) ==
    CASE c = "<" -> "&lt;"
      [] c = "&" -> "&amp;"
      [] c \in NotInCharacterRange -> "u_fffd"
      [] OTHER -> c
EscapeText(s) == [i \in 1..Len(s) |-> EscapeChar(s[i])]

\* the decoder reads a character reference as its character
UnescapeChar(t) ==
    CASE t = "&lt;" -> "<"
      [] t = "&amp;" -> "&"
      [] OTHER -> t
UnescapeText(w) == [i \in 1..Len(w) |-> UnescapeChar(w[i])]

\* strconv.FormatFloat(v, 'g', -1, 64) of a whole number: its digits
RECURSIVE FormatDigits(_)
FormatDigits(n) ==
    IF n < 10 THEN <<ToString(n)>> ELSE FormatDigits(n \div 10) \o <<ToString(n % 10)>>
FormatFloat(v) == IF v < 0 THEN <<"-">> \o FormatDigits(-v) ELSE FormatDigits(v)

\* strconv.ParseFloat of the digits of a whole number; empty text leaves 0
ParseFloat(w) ==
    IF w = <<>> THEN 0
    ELSE IF w[1] = "-" THEN -Atoi(w, 2, Len(w))
    ELSE Atoi(w, 1, Len(w))

\* an element without attributes and children
Leaf(tag, chars) == [Tag |-> tag, Attrs |-> <<>>, Text |-> chars, Children |-> <<>>]

RECURSIVE MarshalValue(_, _, _)
RECURSIVE MarshalFields(_, _, _)
\* the child elements of the struct v for its fields from the i-th on: a
\* nil pointer is left out, every other field is written
MarshalFields(type, v, i) ==
    LET fs == XMLFields(type)
        fd == fs[i]
        x == v[fd.Name]
        here ==
            CASE fd.Kind = "string" -> <<Leaf(fd.Tag, EscapeText(x))>>
              [] fd.Kind = "*string" ->
                    IF IsNilPtr(x) THEN <<>> ELSE <<Leaf(fd.Tag, EscapeText(Deref(x)))>>
              [] fd.Kind = "struct" -> <<MarshalValue(fd.Tag, fd.Type, x)>>
              [] fd.Kind = "*struct" ->
                    IF IsNilPtr(x) THEN <<>> ELSE <<MarshalValue(fd.Tag, fd.Type, Deref(x))>>
              [] fd.Kind = "*opaque" ->
                    IF IsNilPtr(x) THEN <<>> ELSE <<Leaf(fd.Tag, <<>>)>>
              [] OTHER -> <<>>
    IN  IF i > Len(fs) THEN <<>> ELSE here \o MarshalFields(type, v, i + 1)

\* the attributes of the element of the struct v
MarshalAttrs(type, v) ==
    LET fs == XMLFields(type)
        attr(fd) == [Name |-> fd.Tag, Value |-> EscapeText(v[fd.Name])]
    IN  [k \in 1..Len(SelectSeq(fs, LAMBDA fd : fd.Kind = "attr")) |->
            attr(SelectSeq(fs, LAMBDA fd : fd.Kind = "attr")[k])]

\* the character data of the element of the struct v
MarshalText(type, v) ==
    LET fs == XMLFields(type)
        cd == {i \in 1..Len(fs) : fs[i].Kind = "chardata"}
    IN  IF cd = {} THEN <<>> ELSE FormatFloat(v[fs[CHOOSE i \in cd : TRUE].Name])

\* the element named tag of the struct v
MarshalValue(tag, type, v) ==
    [Tag |-> tag,
     Attrs |-> MarshalAttrs(type, v),
     Text |-> MarshalText(type, v),
     Children |-> MarshalFields(type, v, 1)]

\* an element without content
EmptyElement == Leaf("", <<>>)

RECURSIVE UnmarshalValue(_, _)
\* the struct decoded from an element: a field whose element is absent
\* keeps the zero value of a fresh struct (nil for a pointer), a field
\* whose element occurs is set from the last occurrence
UnmarshalValue(type, el) ==
    LET fs == XMLFields(type)
        FieldOf(n) == fs[CHOOSE i \in 1..Len(fs) : fs[i].Name = n]
        Found(tag) == {i \in 1..Len(el.Children) : el.Children[i].Tag = tag}
        Occurs(tag) == Found(tag) # {}
        Last(tag) ==
            el.Children[CHOOSE i \in Found(tag) : \A j \in Found(tag) : j <= i]
        AttrAt(tag) == {i \in 1..Len(el.Attrs) : el.Attrs[i].Name = tag}
        Decode(fd) ==
            CASE fd.Kind = "string" ->
                    IF Occurs(fd.Tag) THEN UnescapeText(Last(fd.Tag).Text) ELSE <<>>
              [] fd.Kind = "*string" ->
                    IF Occurs(fd.Tag) THEN Ptr(UnescapeText(Last(fd.Tag).Text)) ELSE Nil
              [] fd.Kind = "struct" ->
                    IF Occurs(fd.Tag) THEN UnmarshalValue(fd.Type, Last(fd.Tag))
                    ELSE UnmarshalValue(fd.Type, EmptyElement)
              [] fd.Kind = "*struct" ->
                    IF Occurs(fd.Tag) THEN Ptr(UnmarshalValue(fd.Type, Last(fd.Tag)))
                    ELSE Nil
              [] fd.Kind = "*opaque" -> IF Occurs(fd.Tag) THEN Ptr(Opaque) ELSE Nil
              [] fd.Kind = "chardata" -> ParseFloat(el.Text)
              [] fd.Kind = "attr" ->
                    IF AttrAt(fd.Tag) = {} THEN <<>>
                    ELSE UnescapeText(el.Attrs[CHOOSE i \in AttrAt(fd.Tag) : TRUE].Value)
    IN  [n \in {fs[i].Name : i \in 1..Len(fs)} |-> Decode(FieldOf(n))]

\* xml.Marshal and xml.Unmarshal of a transaction
XMLMarshal(v) ==
    MarshalValue("CreditTransferTransaction39", "CreditTransferTransaction39", v)
XMLUnmarshal(el) == UnmarshalValue("CreditTransferTransaction39", el)

\* the texts of the trees sent through the codec, with a markup character,
\* a control character and a character of two bytes
WireAlphabet == {"S", "<", "ctrl_01", "e_acute"}
WireStrings == UNION {[1..n -> WireAlphabet] : n \in 0..MaxCodeLen}

\* the trees sent through the codec: the optional fields nil or set, the
\* charge bearer and the debtor's name one of the texts
WireTrees ==
    {[TxOf(pick) EXCEPT !.ChargeBearer = s,
                        !.Debtor = [PartyIdentification135_Zero EXCEPT !.Name = Ptr(s)]] :
        pick \in {MaskPick(TxFields, S, v) : S \in SUBSET TxOptional, v \in {"zero", "bad"}},
        s \in WireStrings}

InitCodec ==
    /\ subject \in {Subject("CreditTransferTransaction39", t) : t \in WireTrees}
    /\ op = "none"
    /\ ret = NilError
    /\ calls = 0
    /\ text = Nil
    /\ passed = ""
    /\ compiled = <<>>
    /\ trees = <<>>
    /\ pc = <<>>
    /\ frames = <<>>
    /\ results = <<>>
    /\ wire = Nil
    /\ sent = Nil

\* xml.Marshal(tree): the caller keeps the wire form
Serialize ==
    /\ sent = Nil
    /\ wire' = Ptr(XMLMarshal(subject.V))
    /\ sent' = Ptr(subject.V)
    /\ op' = "xml.Marshal"
    /\ ret' = NilError
    /\ text' = Nil
    /\ passed' = ""
    /\ compiled' = <<>>
    /\ UNCHANGED <<subject, calls>>
    /\ UNCHANGED goroutineVars

\* xml.Unmarshal(data, &tree) into a fresh tree, which the caller goes on
\* with
Deserialize ==
    /\ op = "xml.Marshal"
    /\ subject' = Subject(subject.Kind, XMLUnmarshal(Deref(wire)))
    /\ op' = "xml.Unmarshal"
    /\ ret' = NilError
    /\ text' = Nil
    /\ passed' = ""
    /\ compiled' = <<>>
    /\ UNCHANGED <<calls, wire, sent>>
    /\ UNCHANGED goroutineVars

\* Validate is called on the tree before it is serialized and on the tree
\* that was deserialized
ValidateAround ==
    /\ op # "xml.Marshal"
    /\ CreditTransferTransaction39Validate

NextCodec ==
    \/ Serialize
    \/ Deserialize
    \/ ValidateAround

SpecCodec == InitCodec /\ [][NextCodec]_vars

(***************************************************************************)
(* Properties.                                                             *)
(***************************************************************************)
\* does the list hold a violation whose Field is field
HasField(errs, field) == \E k \in 1..Len(errs) : errs[k].Field = field

\* the number of violations of the list whose Field is field
CountField(errs, field) == Cardinality({k \in 1..Len(errs) : errs[k].Field = field})

\* is the checked field f of the group header g invalid under its constraint
\* (Max35Text, Max15NumericText, a required timestamp, a required
\* settlement method)
GhFieldInvalid(g, f) ==
    CASE f = "MessageID" -> ~(GoLen(g.MessageID) \in 1..35)
      [] f = "NumberOfTransactions" ->
            ~(/\ Len(g.NumberOfTransactions) \in 1..15
              /\ \A k \in 1..Len(g.NumberOfTransactions) : g.NumberOfTransactions[k] \in Digit)
      [] f = "CreationDateTime" -> IsNilPtr(g.CreationDateTime)
      [] f = "SettlementInfo" -> Len(g.SettlementInfo.SettlementMethod) = 0

\* the names under which GroupHeader93.Validate reports the field f
GhFieldNames(f) ==
    CASE f = "MessageID" -> {<<"MsgId">>}
      [] f = "NumberOfTransactions" -> {<<"NbOfTxs">>}
      [] f = "CreationDateTime" -> {<<"CreDtTm">>}
      [] f = "SettlementInfo" -> {<<"SttlmInf">>, <<"SttlmMtd">>}

\* is the checked field f of the transaction c invalid: its own validation
\* fails (an optional field only when it is set)
TxFieldInvalid(c, f) ==
    CASE f = "PaymentID" -> ~PaymentIdentification7_Validate(c.PaymentID).IsNil
      [] f = "InterbankSettlementAmount" ->
            ~ActiveCurrencyAndAmount_Validate(c.InterbankSettlementAmount).IsNil
      [] f = "ChargeBearer" -> ~(GoLen(c.ChargeBearer) \in 1..4)
      [] f = "Debtor" -> ~PartyIdentification135_Validate(c.Debtor).IsNil
      [] f = "DebtorAgent" ->
            ~BranchAndFinancialInstitutionIdentification6_Validate(c.DebtorAgent).IsNil
      [] f = "Creditor" -> ~PartyIdentification135_Validate(c.Creditor).IsNil
      [] f = "CreditorAgent" ->
            ~BranchAndFinancialInstitutionIdentification6_Validate(c.CreditorAgent).IsNil
      [] f = "PaymentTypeInfo" ->
            /\ ~IsNilPtr(c.PaymentTypeInfo)
            /\ ~PaymentTypeInfo28_Validate(Deref(c.PaymentTypeInfo)).IsNil
      [] f = "DebtorAccount" ->
            /\ ~IsNilPtr(c.DebtorAccount)
            /\ ~CashAccount38_Validate(Deref(c.DebtorAccount)).IsNil
      [] f = "CreditorAccount" ->
            /\ ~IsNilPtr(c.CreditorAccount)
            /\ ~CashAccount38_Validate(Deref(c.CreditorAccount)).IsNil
      [] f = "UltimateDebtor" ->
            /\ ~IsNilPtr(c.UltimateDebtor)
            /\ ~PartyIdentification135_Validate(Deref(c.UltimateDebtor)).IsNil
      [] f = "UltimateCreditor" ->
            /\ ~IsNilPtr(c.UltimateCreditor)
            /\ ~PartyIdentification135_Validate(Deref(c.UltimateCreditor)).IsNil

\* C1: validation is fail-slow inside a structure: after one call of
\* GroupHeader93.Validate or CreditTransferTransaction39.Validate the
\* returned list holds a violation for every directly checked field that is
\* invalid, whatever the other fields are.
C1_FailSlow ==
    /\ op = "GroupHeader93.Validate" =>
          \A f \in GhFields :
              GhFieldInvalid(subject.V, f) =>
                  \E k \in 1..Len(ret.Errs) : ret.Errs[k].Field \in GhFieldNames(f)
    /\ op = "CreditTransferTransaction39.Validate" =>
          \A f \in TxFields :
              TxFieldInvalid(subject.V, f) => HasField(ret.Errs, <<f>>)

\* C1 witness: a group header with MessageID, NumberOfTransactions,
\* CreationDateTime and SettlementInfo all unset was validated and the list
\* holds four violations.
C1_Witness ==
    /\ op = "GroupHeader93.Validate"
    /\ subject.V = GhOf(MaskPick(GhFields, GhFields, "zero"))
    /\ Len(ret.Errs) = 4

\* C2: when exactly one required field of CreditTransferTransaction39 or of
\* GroupHeader93 is left at its zero value and every other field is valid,
\* Validate returns exactly one violation and it names that field.
C2_OnePresenceViolation ==
    /\ op = "CreditTransferTransaction39.Validate" =>
          \A f \in TxRequired :
              ( /\ subject.V[f] = TxSample[f].zero
                /\ \A g \in TxRequired \ {f} : subject.V[g] # TxSample[g].zero
                /\ \A g \in TxFields \ {f} : ~TxFieldInvalid(subject.V, g) )
              => (Len(ret.Errs) = 1 /\ ret.Errs[1].Field = <<f>>)
    /\ op = "GroupHeader93.Validate" =>
          \A f \in GhFields :
              ( /\ subject.V[f] = GhSample[f].zero
                /\ \A g \in GhFields \ {f} : ~GhFieldInvalid(subject.V, g) )
              => (Len(ret.Errs) = 1 /\ ret.Errs[1].Field \in GhFieldNames(f))

\* the alternatives of the choice structure v of type kind: the name of
\* each, whether it is set and whether, being set, it fails the validation
\* the structure applies to it
Alternative(name, p, fails) ==
    [Name |-> name, Set |-> ~IsNilPtr(p), Fails |-> ~IsNilPtr(p) /\ fails]

Alternatives(kind, v) ==
    CASE kind \in StringChoiceKinds ->
            {Alternative("Code", v.Code,
                         IF IsNilPtr(v.Code) THEN FALSE ELSE ~(GoLen(Deref(v.Code)) \in 1..35)),
             Alternative("Proprietary", v.Proprietary,
                         IF IsNilPtr(v.Proprietary) THEN FALSE
                         ELSE ~(GoLen(Deref(v.Proprietary)) \in
                                    1..(IF kind = "MandateSetupReason1" THEN 70 ELSE 35)))}
      [] kind = "AccountIdentification4" ->
            {Alternative("IBAN", v.IBAN,
                         IF IsNilPtr(v.IBAN) THEN FALSE ELSE ~(GoLen(Deref(v.IBAN)) \in 15..34)),
             Alternative("Other", v.Other,
                         IF IsNilPtr(v.Other) THEN FALSE
                         ELSE ~GenericAccountIdentification1_Validate(Deref(v.Other)).IsNil)}
      [] kind = "Party44" ->
            {Alternative("FinancialInstitutionID", v.FinancialInstitutionID,
                         IF IsNilPtr(v.FinancialInstitutionID) THEN FALSE
                         ELSE ~BranchAndFinancialInstitutionIdentification6_Validate(
                                   Deref(v.FinancialInstitutionID)).IsNil),
             Alternative("OrganisationIdentification", v.OrganisationIdentification,
                         IF IsNilPtr(v.OrganisationIdentification) THEN FALSE
                         ELSE ~PartyIdentification135_Validate(
                                   Deref(v.OrganisationIdentification)).IsNil)}

\* the number of alternatives that are set
NumberSet(kind, v) == Cardinality({a \in Alternatives(kind, v) : a.Set})

\* the Field of the cardinality violation of a choice structure
CardinalityField(kind) == IF kind = "Party44" THEN <<"Party44">> ELSE <<"Choice">>

\* C3: for every choice structure with a Validate method, the returned list
\* holds no cardinality violation when exactly one alternative is set and
\* exactly one when none or both are set, whether or not the set
\* alternatives are themselves valid.
C3_ChoiceCardinality ==
    op = "Choice.Validate" =>
        CountField(ret.Errs, CardinalityField(subject.Kind))
            = (IF NumberSet(subject.Kind, subject.V) = 1 THEN 0 ELSE 1)

\* C3 witness: a Party44 with both alternatives set, one of them invalid,
\* was validated and the list holds the cardinality violation next to the
\* alternative's violation.
C3_Witness ==
    /\ op = "Choice.Validate"
    /\ subject.Kind = "Party44"
    /\ NumberSet(subject.Kind, subject.V) = 2
    /\ Len(ret.Errs) = 2
    /\ CountField(ret.Errs, <<"Party44">>) = 1

\* C4: when exactly one alternative of a choice structure is set and that
\* alternative fails its own validation, Validate returns a non-empty list
\* that holds the alternative's violation and no cardinality violation.
C4_ChosenAlternativeSurfaces ==
    op = "Choice.Validate" =>
        \A a \in Alternatives(subject.Kind, subject.V) :
            (NumberSet(subject.Kind, subject.V) = 1 /\ a.Fails) =>
                /\ ~ret.IsNil
                /\ Len(ret.Errs) >= 1
                /\ HasField(ret.Errs, <<a.Name>>)
                /\ CountField(ret.Errs, CardinalityField(subject.Kind)) = 0

\* C4 witness: an AccountIdentification4 with only an IBAN, shorter than
\* 15, was validated and the list is the IBAN violation alone.
C4_Witness ==
    /\ op = "Choice.Validate"
    /\ subject.Kind = "AccountIdentification4"
    /\ subject.V = [IBAN |-> Ptr(S_GB82), Other |-> Nil]
    /\ Len(ret.Errs) = 1
    /\ ret.Errs[1].Field = <<"IBAN">>

\* is the name of the party p set and longer than the 140 of Max140Text
NameTooLong(p) == ~IsNilPtr(p.Name) /\ GoLen(Deref(p.Name)) > 140

\* the dot-separated path of the field name below the path prefix
PathBelow(prefix, name) == prefix \o <<".", name>>

\* C5: every violation carries the full path from the validated structure
\* to the offending field: a too-long Debtor.Name is returned as a list
\* element of its own whose path is Debtor.Name for a transaction, and
\* CreditTransferTransactionInfo[i].Debtor.Name for the transaction at
\* index i of a transfer.
C5_FullPath ==
    /\ op = "CreditTransferTransaction39.Validate" =>
          (NameTooLong(subject.V.Debtor) =>
              HasField(ret.Errs, PathBelow(<<"Debtor">>, "Name")))
    /\ op = "FIToFICustomerCreditTransferV08.Validate" =>
          LET txs == subject.V.FICustomerCreditTransfer.CreditTransferTransactionInfo.Elems
          IN  \A i \in 0..(Len(txs) - 1) :
                  NameTooLong(txs[i + 1].Debtor) =>
                      HasField(ret.Errs,
                               PathBelow(PathBelow(IndexedField(i), "Debtor"), "Name"))

\* C6: CreditTransferTransaction39.Validate on a transfer with ChargeBearer
\* unset, DebtorAgent valid, Creditor.Name longer than 140 and every other
\* field valid returns exactly two violations, one at path ChargeBearer and
\* one at path Creditor.Name.
C6_EndToEnd ==
    ( /\ op = "CreditTransferTransaction39.Validate"
      /\ Len(subject.V.ChargeBearer) = 0
      /\ NameTooLong(subject.V.Creditor)
      /\ \A g \in TxFields \ {"ChargeBearer", "Creditor"} : ~TxFieldInvalid(subject.V, g) )
    => /\ Len(ret.Errs) = 2
       /\ HasField(ret.Errs, <<"ChargeBearer">>)
       /\ HasField(ret.Errs, PathBelow(<<"Creditor">>, "Name"))

\* C7: Pacs00800108Document.Validate returns nil exactly when
\* FIToFICustomerCreditTransferV08.Validate on its FICustomerCreditTransfer
\* returns nil; in particular it returns a violation list whenever an
\* element of CreditTransferTransactionInfo fails its own validation.
C7_RootRecurses ==
    op = "Pacs00800108Document.Validate" =>
        (ret.IsNil <=>
            FIToFICustomerCreditTransferV08_Validate(subject.V.FICustomerCreditTransfer).IsNil)

\* the list of violations the method named by op collects on the subject
\* before it returns
Collected ==
    CASE op = "GroupHeader93.Validate" -> GroupHeader93_errs(subject.V)
      [] op = "CreditTransferTransaction39.Validate" ->
            CreditTransferTransaction39_errs(subject.V)
      [] op = "FIToFICustomerCreditTransferV08.Validate" ->
            FIToFICustomerCreditTransferV08_errs(subject.V.FICustomerCreditTransfer)
      [] op = "Pacs00800108Document.Validate" -> Pacs00800108Document_errs(subject.V)
      [] op = "Choice.Validate" ->
            CASE subject.Kind = "AccountIdentification4" ->
                    AccountIdentification4_errs(subject.V)
              [] subject.Kind = "Party44" -> Party44_errs(subject.V)
              [] subject.Kind = "InterestType1" -> InterestType1_errs(subject.V)
              [] OTHER ->
                    CodeOrProprietary_errs(subject.V,
                        IF subject.Kind = "MandateSetupReason1" THEN 70 ELSE 35)
      [] op = "Structure.Validate" -> StructureErrs(subject.Kind, subject.V)
      [] OTHER -> <<>>

\* the methods named Validate
ValidateMethods ==
    {"GroupHeader93.Validate", "CreditTransferTransaction39.Validate",
     "FIToFICustomerCreditTransferV08.Validate", "Pacs00800108Document.Validate",
     "Choice.Validate", "Structure.Validate"}

\* C8: a Validate method has two outcomes only: it returns nil exactly when
\* it collected no violation, and otherwise the list it collected, which
\* has at least one element; it never returns a non-nil error holding an
\* empty list, and HasErrors() is true exactly for a non-empty list.
C8_TwoOutcomes ==
    (calls >= 1 /\ op \in ValidateMethods) =>
        /\ ret.IsNil <=> Len(Collected) = 0
        /\ ~ret.IsNil => (Len(ret.Errs) >= 1 /\ ret.Errs = Collected)
        /\ HasErrors(ret.Errs) <=> Len(ret.Errs) > 0
        /\ HasErrors(ret.Errs) <=> ~ret.IsNil

\* C8 witness: a valid transaction was validated and Validate returned nil.
C8_Witness ==
    /\ op = "CreditTransferTransaction39.Validate"
    /\ subject.V = TxOf(MaskPick(TxFields, {}, "zero"))
    /\ ret.IsNil
    /\ ~HasErrors(ret.Errs)

\* the position of the first token of the i-th entry in the rendering of
\* errs: every earlier entry takes its two literal tokens, its path and its
\* message, and one separator
RECURSIVE EntryStart(_, _)
EntryStart(errs, i) ==
    IF i = 1 THEN 1
    ELSE EntryStart(errs, i - 1)
         + 2 + Len(errs[i - 1].Field) + Len(errs[i - 1].Message) + 1

\* the tokens of t from position i that a text w would occupy
At(t, i, w) == SubSeq(t, i, i + Len(w) - 1)

\* C9: ValidationErrors.Error() renders every violation of the list, in
\* list order, as Field '<path>': <message>, joined with "; "; the text is
\* empty exactly when the list is empty, and for n >= 1 violations it holds
\* exactly n top-level entries and n - 1 separators between them.
C9_ErrorText ==
    ~IsNilPtr(text) =>
        LET t == Deref(text)
            errs == ret.Errs
            n == Len(errs)
        IN  /\ Len(t) = 0 <=> n = 0
            /\ n >= 1 => Len(t) = EntryStart(errs, n + 1) - 2
            /\ \A i \in 1..n :
                  LET b == EntryStart(errs, i)
                      e == errs[i]
                  IN  /\ At(t, b, <<"Field '">>) = <<"Field '">>
                      /\ At(t, b + 1, e.Field) = e.Field
                      /\ At(t, b + 1 + Len(e.Field), <<"': ">>) = <<"': ">>
                      /\ At(t, b + 2 + Len(e.Field), e.Message) = e.Message
                      /\ i < n => t[EntryStart(errs, i + 1) - 1] = "; "

\* C9 witness: a list of at least two violations was rendered.
C9_Witness ==
    /\ ~IsNilPtr(text)
    /\ Len(ret.Errs) >= 2
    /\ Len(Deref(text)) > 0

OptionalFields(kind) ==
    CASE kind = "PartyIdentification135" -> {"Name", "PostalAddress", "ID", "ContactDetails"}
      [] kind = "PostalAddress24" ->
            {"Department", "StreetName", "BuildingNumber", "PostCode", "TownName", "Country"}
      [] kind = "Contact4" -> {"Name", "EmailAddress", "PhoneNumber"}
      [] kind = "FinancialInstitutionIdentification18" ->
            {"BankIdentifierCode", "ClearingSystemMemberID", "LegalEntityIdentifier", "Name"}
      [] kind = "BranchData3" -> {"ID", "LegalEntityIdentifier", "Name"}
      [] kind = "PaymentTypeInfo28" -> {"InstructionPriority", "SequenceType"}
      [] kind = "PaymentIdentification7" -> {"TransactionID"}
      [] kind = "GenericIdentification30" -> {"SchemeName"}
      [] kind = "GenericAccountIdentification1" -> {"Issuer"}
      [] kind = "CashAccount38" -> {"Type", "Currency", "Name"}
      [] kind = "CreditTransferTransaction39" -> TxOptional
      [] OTHER -> {}

\* the structures all of whose checked fields are optional
AllOptionalKinds ==
    {"PartyIdentification135", "PostalAddress24", "Contact4",
     "FinancialInstitutionIdentification18", "BranchData3", "PaymentTypeInfo28"}

\* C11: an unset optional field is skipped: after Validate on a structure
\* the list holds no violation for an optional field that is nil, and a
\* PartyIdentification135, PostalAddress24, Contact4,
\* FinancialInstitutionIdentification18, BranchData3 or PaymentTypeInfo28
\* with every optional field nil validates with no violation.
C11_OptionalSkipped ==
    op \in {"Structure.Validate", "CreditTransferTransaction39.Validate"} =>
        /\ \A f \in OptionalFields(subject.Kind) :
              IsNilPtr(subject.V[f]) => ~HasField(ret.Errs, <<f>>)
        /\ ( /\ subject.Kind \in AllOptionalKinds
             /\ \A f \in OptionalFields(subject.Kind) : IsNilPtr(subject.V[f]) )
           => (ret.IsNil /\ Len(ret.Errs) = 0)

\* C11 witness: a PostalAddress24 with every field nil was validated and
\* Validate returned nil.
C11_Witness ==
    /\ op = "Structure.Validate"
    /\ subject.Kind = "PostalAddress24"
    /\ subject.V = PostalAddress24_Zero
    /\ ret.IsNil

\* a text of exactly three uppercase letters A-Z
ThreeUpperLetters(s) == Len(s) = 3 /\ \A i \in 1..Len(s) : s[i] \in Upper

\* C12: validateCurrency returns no violation exactly for the texts of
\* three uppercase letters A-Z (so for "USD" and not for "US", "usd" or ""),
\* and otherwise one violation; ActiveCurrencyAndAmount.Validate with a
\* positive Value returns nil exactly when its Currency is such a text.
C12_CurrencyCode ==
    /\ op = "validateCurrency" =>
          /\ ret.IsNil <=> ThreeUpperLetters(subject.V)
          /\ ~ret.IsNil => Len(ret.Errs) = 1
          /\ subject.V = S_USD => ret.IsNil
          /\ subject.V \in {S_US, S_usd, <<>>} => ~ret.IsNil
    /\ ( /\ op = "Structure.Validate"
         /\ subject.Kind = "ActiveCurrencyAndAmount"
         /\ subject.V.Value > 0 )
       => (ret.IsNil <=> ThreeUpperLetters(subject.V.Currency))

\* C12 witness: validateCurrency was called on "usd" and returned the
\* pattern violation.
C12_Witness ==
    /\ op = "validateCurrency"
    /\ subject.V = S_usd
    /\ ~ret.IsNil
    /\ ret.Errs[1].Message = <<"does not match required pattern '", PatCurrency, "'">>

\* the number written by the two digits of s at positions i and i + 1
TwoDigits(s, i) == DigitValue(s[i]) * 10 + DigitValue(s[i + 1])

\* the number of days of month m of the year y in the Gregorian calendar
CalendarDays(y, m) ==
    IF m = 2
    THEN (IF (y % 4 = 0 /\ y % 100 # 0) \/ y % 400 = 0 THEN 29 ELSE 28)
    ELSE <<31, 28, 31, 30, 31, 30, 31, 31, 30, 31, 30, 31>>[m]

\* do the ten characters of s from position i on have the shape YYYY-MM-DD
\* and denote a day of the calendar
IsCalendarDateAt(s, i) ==
    /\ Len(s) >= i + 9
    /\ \A k \in {0, 1, 2, 3, 5, 6, 8, 9} : s[i + k] \in Digit
    /\ s[i + 4] = "-"
    /\ s[i + 7] = "-"
    /\ LET y == TwoDigits(s, i) * 100 + TwoDigits(s, i + 2)
           m == TwoDigits(s, i + 5)
           d == TwoDigits(s, i + 8)
       IN  /\ m \in 1..12
           /\ d >= 1
           /\ d <= CalendarDays(y, m)

IsCalendarDate(s) == Len(s) = 10 /\ IsCalendarDateAt(s, 1)

\* C13: validateDate returns no violation exactly for the texts of the
\* shape YYYY-MM-DD that denote a real calendar date (month 01..12, day
\* 01..the number of days of the month, leap years included); every other
\* text, the empty one included, yields exactly one violation.
C13_DateConstraint ==
    op = "validateDate" =>
        /\ ret.IsNil <=> IsCalendarDate(subject.V)
        /\ ~ret.IsNil => Len(ret.Errs) = 1

\* C13 witness: validateDate was called on "2023-13-45", which has the
\* shape of a date, and returned the violation of the calendar check.
C13_Witness ==
    /\ op = "validateDate"
    /\ subject.V = <<"2", "0", "2", "3", "-", "1", "3", "-", "4", "5">>
    /\ ~ret.IsNil
    /\ ret.Errs[1].Message = <<"invalid date value">>

\* do the eight characters of s from position i on have the shape HH:MM:SS
\* and denote a time of the day
IsTimeOfDayAt(s, i) ==
    /\ Len(s) >= i + 7
    /\ \A k \in {0, 1, 3, 4, 6, 7} : s[i + k] \in Digit
    /\ s[i + 2] = ":"
    /\ s[i + 5] = ":"
    /\ TwoDigits(s, i) < 24
    /\ TwoDigits(s, i + 3) < 60
    /\ TwoDigits(s, i + 6) < 60

\* is x one of the four suffixes: nothing, .mmm, Z, .mmmZ
IsDateTimeSuffix(x) ==
    \/ x = <<>>
    \/ x = <<"Z">>
    \/ Len(x) \in {4, 5} /\ x[1] = "." /\ (\A k \in 2..4 : x[k] \in Digit)
                         /\ (Len(x) = 5 => x[5] = "Z")

\* a calendar-valid text of one of the forms base, base.mmm, baseZ, base.mmmZ
IsDateTimeForm(s) ==
    /\ Len(s) >= 19
    /\ IsCalendarDateAt(s, 1)
    /\ s[11] = "T"
    /\ IsTimeOfDayAt(s, 12)
    /\ IsDateTimeSuffix(SubSeq(s, 20, Len(s)))

\* C14: validateDateTime returns no violation for every calendar-valid text
\* of the forms base, base.mmm, baseZ and base.mmmZ, and a violation for a
\* text with a space in place of the T.
C14_DateTimeForms ==
    op = "validateDateTime" =>
        /\ IsDateTimeForm(subject.V) => ret.IsNil
        /\ (Len(subject.V) >= 11 /\ subject.V[11] = " ") => ~ret.IsNil

\* the shape of a BIC: 4 uppercase letters, 2 uppercase letters, 2 uppercase
\* alphanumerics and an optional 3 uppercase alphanumerics
IsBICShape(s) ==
    /\ Len(s) \in {8, 11}
    /\ \A i \in 1..6 : s[i] \in Upper
    /\ \A i \in 7..Len(s) : s[i] \in Upper \cup Digit

\* C15: validateBIC returns no violation exactly for the texts of the BIC
\* shape (length 8 or 11, no digit in the first six positions), and
\* FinancialInstitutionIdentification18.Validate reports a violation for a
\* set BICFI exactly when the text has not that shape ("CHASUS33" passes,
\* "INVALID" and "BOFA0011" fail).
C15_BIC ==
    /\ op = "validateBIC" =>
          /\ ret.IsNil <=> IsBICShape(subject.V)
          /\ subject.V = S_CHASUS33 => ret.IsNil
          /\ subject.V \in {S_INVALID, S_BOFA0011} => ~ret.IsNil
    /\ ( /\ op = "Structure.Validate"
         /\ subject.Kind = "FinancialInstitutionIdentification18"
         /\ ~IsNilPtr(subject.V.BankIdentifierCode) )
       => (HasField(ret.Errs, <<"BankIdentifierCode">>)
              <=> ~IsBICShape(Deref(subject.V.BankIdentifierCode)))

\* C15 witness: a FinancialInstitutionIdentification18 whose BICFI is
\* "BOFA0011" was validated and the list holds the BIC violation.
C15_Witness ==
    /\ op = "Structure.Validate"
    /\ subject.Kind = "FinancialInstitutionIdentification18"
    /\ subject.V.BankIdentifierCode = Ptr(S_BOFA0011)
    /\ HasField(ret.Errs, <<"BankIdentifierCode">>)

\* C16: concurrent validation needs no synchronization: under every
\* interleaving of the statements of Validate calls that run at the same
\* time on trees of their own, each call returns exactly the list it returns
\* when it runs alone.
C16_NoInterference ==
    \A g \in Goroutines :
        pc[g] = "done" =>
            results[g] = FIToFICustomerCreditTransferV08_Validate(trees[g])

\* C16 witness: one call has returned its violations while another call, on
\* a different tree, is inside its loop and has collected a violation.
C16_Witness ==
    \E g, h \in Goroutines :
        /\ g # h
        /\ trees[g] # trees[h]
        /\ pc[g] = "done"
        /\ ~results[g].IsNil
        /\ pc[h] = "loop"
        /\ frames[FrameOf(h)].i >= 1
        /\ Len(frames[FrameOf(h)].errs) >= 1

RECURSIVE SetElements(_, _)
\* the tag paths of the pointer fields that are set in the struct v
SetElements(type, v) ==
    LET fs == XMLFields(type)
        under(fd, x) == {<<fd.Tag>> \o p : p \in SetElements(fd.Type, x)}
        at(fd) ==
            CASE fd.Kind \in {"*string", "*opaque"} ->
                    IF IsNilPtr(v[fd.Name]) THEN {} ELSE {<<fd.Tag>>}
              [] fd.Kind = "*struct" ->
                    IF IsNilPtr(v[fd.Name]) THEN {}
                    ELSE {<<fd.Tag>>} \cup under(fd, Deref(v[fd.Name]))
              [] fd.Kind = "struct" -> under(fd, v[fd.Name])
              [] OTHER -> {}
    IN  UNION {at(fs[i]) : i \in 1..Len(fs)}

RECURSIVE WireElements(_)
\* the tag paths of the elements below a wire element
WireElements(el) ==
    UNION {{<<el.Children[i].Tag>>}
           \cup {<<el.Children[i].Tag>> \o p : p \in WireElements(el.Children[i])} :
           i \in 1..Len(el.Children)}

\* a tree was serialized and the wire form deserialized
RoundTripped == sent # Nil /\ op # "xml.Marshal"

\* C17: a round trip through the codec preserves validity and presence: when
\* Validate returns nil for the tree that is serialized it returns nil for
\* the tree that is deserialized, every optional field that was nil before
\* is nil after, and no field is set whose element is absent from the wire
\* form.
C17_RoundTrip ==
    RoundTripped =>
        /\ CreditTransferTransaction39_Validate(Deref(sent)).IsNil
               => CreditTransferTransaction39_Validate(subject.V).IsNil
        /\ SetElements("CreditTransferTransaction39", subject.V)
               \subseteq SetElements("CreditTransferTransaction39", Deref(sent))
        /\ SetElements("CreditTransferTransaction39", subject.V)
               \subseteq WireElements(Deref(wire))

\* the required string fields: the kind of the structure, the field and the
\* name the violations of the field carry
RequiredStrings ==
    {<<"GroupHeader93", "MessageID", "MsgId">>,
     <<"GroupHeader93", "NumberOfTransactions", "NbOfTxs">>,
     <<"PaymentIdentification7", "EndToEndID", "EndToEndID">>,
     <<"CreditTransferTransaction39", "ChargeBearer", "ChargeBearer">>,
     <<"GenericIdentification30", "ID", "ID">>,
     <<"GenericIdentification30", "Issuer", "Issuer">>,
     <<"GenericAccountIdentification1", "ID", "ID">>}

\* the violations of the list whose Field is field
ViolationsOf(errs, field) == {errs[k] : k \in {j \in 1..Len(errs) : errs[j].Field = field}}

\* C18: a required string field that is empty gets exactly one violation,
\* the presence violation, and no length or pattern violation in addition.
C18_RequiredUnsetOnce ==
    \A c \in RequiredStrings :
        (/\ calls >= 1
         /\ op \in ValidateMethods
         /\ subject.Kind = c[1]
         /\ subject.V[c[2]] = <<>>)
        => /\ CountField(ret.Errs, <<c[3]>>) = 1
           /\ ViolationsOf(ret.Errs, <<c[3]>>)
                  = {VE(<<c[3]>>, <<"is required but is empty">>)}

\* Validate was called on a transaction with an empty ChargeBearer and other
\* invalid fields, and returned one violation for ChargeBearer among others
C18_Witness ==
    /\ op = "CreditTransferTransaction39.Validate"
    /\ subject.V.ChargeBearer = <<>>
    /\ CountField(ret.Errs, <<"ChargeBearer">>) = 1
    /\ Len(ret.Errs) > 1

\* the place of the field named f in the field list of the struct type
DeclarationIndex(type, f) ==
    CHOOSE i \in 1..Len(XMLFields(type)) : XMLFields(type)[i].Name = f

\* C19: the violations CreditTransferTransaction39.Validate returns appear in
\* the declaration order of the fields they concern (a PaymentTypeInfo
\* violation before an InterbankSettlementAmount or ChargeBearer violation,
\* UltimateDebtor before Debtor, CreditorAgent before Creditor).
C19_DeclarationOrder ==
    op = "CreditTransferTransaction39.Validate" =>
        \A j \in 1..Len(ret.Errs) : \A k \in 1..Len(ret.Errs) :
            j < k =>
                DeclarationIndex("CreditTransferTransaction39", ret.Errs[j].Field[1])
                    <= DeclarationIndex("CreditTransferTransaction39", ret.Errs[k].Field[1])

\* the number of the pointers of the set that are set
SetCount(ptrs) == Cardinality({i \in 1..Len(ptrs) : ~IsNilPtr(ptrs[i])})

\* C20: the choice groups inside a validated structure are validated:
\* CashAccount38.Validate returns a violation when Type is set with neither
\* or both of Code and Proprietary, PartyIdentification135.Validate when ID
\* is set with neither or both of OrganizationID and PrivateID.
C20_NestedChoices ==
    (calls >= 1 /\ op = "Structure.Validate") =>
        /\ (/\ subject.Kind = "CashAccount38"
            /\ ~IsNilPtr(subject.V.Type)
            /\ SetCount(<<Deref(subject.V.Type).Code,
                          Deref(subject.V.Type).Proprietary>>) # 1)
           => ~ret.IsNil
        /\ (/\ subject.Kind = "PartyIdentification135"
            /\ ~IsNilPtr(subject.V.ID)
            /\ SetCount(<<Deref(subject.V.ID).OrganizationID,
                          Deref(subject.V.ID).PrivateID>>) # 1)
           => ~ret.IsNil

\* C21: AccountIdentification4.Validate agrees with validateIBAN on a set
\* IBAN: whenever the IBAN is set to a text validateIBAN rejects (length
\* outside 15..34 or not two uppercase letters, two digits and uppercase
\* alphanumerics), the returned list has a violation for the field IBAN.
C21_IBANShape ==
    (/\ calls >= 1
     /\ op = "Choice.Validate"
     /\ subject.Kind = "AccountIdentification4"
     /\ ~IsNilPtr(subject.V.IBAN)
     /\ ~validateIBAN(Deref(subject.V.IBAN), "IBAN").IsNil)
    => HasField(ret.Errs, <<"IBAN">>)

\* C22: CashAccount38.Validate agrees with validateCurrency on a set
\* Currency: whenever the optional Currency is set to a text that is not
\* exactly three uppercase letters, the returned list has a violation for
\* the field Currency.
C22_AccountCurrency ==
    (/\ calls >= 1
     /\ op = "Structure.Validate"
     /\ subject.Kind = "CashAccount38"
     /\ ~IsNilPtr(subject.V.Currency)
     /\ ~validateCurrency(Deref(subject.V.Currency), "Currency").IsNil)
    => HasField(ret.Errs, <<"Currency">>)

\* has s the shape the datetime pattern describes: YYYY-MM-DDTHH:MM:SS of
\* digits, followed by nothing, by .mmm or by .mmmZ
IsDateTimeShape(s) ==
    /\ Len(s) \in {19, 23, 24}
    /\ \A k \in {1, 2, 3, 4, 6, 7, 9, 10, 12, 13, 15, 16, 18, 19} : s[k] \in Digit
    /\ s[5] = "-" /\ s[8] = "-" /\ s[11] = "T" /\ s[14] = ":" /\ s[17] = ":"
    /\ Len(s) >= 23 => (s[20] = "." /\ \A k \in 21..23 : s[k] \in Digit)
    /\ Len(s) = 24 => s[24] = "Z"

\* a text of the datetime shape one of whose numbers is out of range: the
\* month, the day of the month, the hour, the minute or the second
IsInvalidDateTimeValue(s) ==
    /\ IsDateTimeShape(s)
    /\ \/ ~IsCalendarDateAt(s, 1)
       \/ TwoDigits(s, 12) > 23
       \/ TwoDigits(s, 15) > 59
       \/ TwoDigits(s, 18) > 59

\* C23: validateDateTime rejects every text of the datetime shape whose
\* month is outside 01..12, whose day does not exist in its month (leap
\* years included) or whose hour, minute or second is above 23, 59, 59:
\* each yields exactly one violation, and so does the empty text.
C23_DateTimeValues ==
    op = "validateDateTime" =>
        /\ IsInvalidDateTimeValue(subject.V) =>
              (~ret.IsNil /\ Len(ret.Errs) = 1
                          /\ ret.Errs[1].Message = <<"invalid datetime value">>)
        /\ subject.V = <<>> => (~ret.IsNil /\ Len(ret.Errs) = 1)

\* C23 witness: validateDateTime was called on "2023-02-30T14:30:00", which
\* has the shape of a datetime, and returned the violation of the value
\* check.
C23_Witness ==
    /\ op = "validateDateTime"
    /\ subject.V = <<"2", "0", "2", "3", "-", "0", "2", "-", "3", "0", "T",
                     "1", "4", ":", "3", "0", ":", "0", "0">>
    /\ ~ret.IsNil
    /\ ret.Errs[1].Message = <<"invalid datetime value">>

\* the transactions of the validated message
MessageTransactions == subject.V.FICustomerCreditTransfer.CreditTransferTransactionInfo.Elems

\* the violations of the list that are not the one of the group header, in
\* the order of the list
RECURSIVE TransactionViolations(_)
TransactionViolations(errs) ==
    IF Len(errs) = 0 THEN <<>>
    ELSE (IF errs[1].Field = <<"GroupHeader">> THEN <<>> ELSE <<errs[1].Field>>)
         \o TransactionViolations(Tail(errs))

\* the paths CreditTransferTransactionInfo[i] of the elements of txs from
\* the 0-based index i on that fail their own validation, in index order
RECURSIVE FailingPaths(_, _)
FailingPaths(txs, i) ==
    IF i >= Len(txs) THEN <<>>
    ELSE (IF CreditTransferTransaction39_Validate(txs[i + 1]).IsNil
          THEN <<>>
          ELSE <<(<<"CreditTransferTransactionInfo[">> \o <<ToString(i)>> \o <<"]">>)>>)
         \o FailingPaths(txs, i + 1)

\* C24: FIToFICustomerCreditTransferV08.Validate requires a transaction and
\* validates every one: with no transaction it returns exactly one violation
\* for CreditTransferTransactionInfo; otherwise it returns, in index order,
\* one violation with the path CreditTransferTransactionInfo[i] (i counted
\* from 0) for each element that fails its validation, none for a valid
\* element, and it goes on after an invalid element.
C24_EveryTransaction ==
    op = "FIToFICustomerCreditTransferV08.Validate" =>
        IF Len(MessageTransactions) = 0
        THEN TransactionViolations(ret.Errs) = <<(<<"CreditTransferTransactionInfo">>)>>
        ELSE TransactionViolations(ret.Errs) = FailingPaths(MessageTransactions, 0)

\* C24 witness: a message of three transactions, the first and the third
\* invalid and the second valid, was validated and the list names the
\* elements 0 and 2.
C24_Witness ==
    /\ op = "FIToFICustomerCreditTransferV08.Validate"
    /\ Len(MessageTransactions) = 3
    /\ ~CreditTransferTransaction39_Validate(MessageTransactions[1]).IsNil
    /\ CreditTransferTransaction39_Validate(MessageTransactions[2]).IsNil
    /\ ~CreditTransferTransaction39_Validate(MessageTransactions[3]).IsNil
    /\ TransactionViolations(ret.Errs)
         = << <<"CreditTransferTransactionInfo[", "0", "]">>,
              <<"CreditTransferTransactionInfo[", "2", "]">> >>

\* the fields of the violations of a list, in the order of the list
FieldsOf(errs) == [k \in 1..Len(errs) |-> errs[k].Field]

\* C25: ActiveCurrencyAndAmount.Validate checks the amount independently of
\* the currency: a Value of zero or less yields the violation 'must be
\* positive' on Value, a missing or malformed Currency one violation on Ccy,
\* both wrong yield both with the one on Value first, so the list has 0, 1
\* or 2 elements.
C25_AmountAndCurrency ==
    (op = "Structure.Validate" /\ subject.Kind = "ActiveCurrencyAndAmount") =>
        /\ FieldsOf(ret.Errs)
             = (IF subject.V.Value <= 0 THEN <<(<<"Value">>)>> ELSE <<>>)
               \o (IF ThreeUpperLetters(subject.V.Currency) THEN <<>> ELSE <<(<<"Ccy">>)>>)
        /\ subject.V.Value <= 0 => ret.Errs[1].Message = <<"must be positive">>
        /\ Len(ret.Errs) \in {0, 1, 2}
        /\ ret.IsNil <=> Len(ret.Errs) = 0

\* C25 witness: an amount of zero in the currency "usd" was validated and
\* both violations were returned.
C25_Witness ==
    /\ op = "Structure.Validate"
    /\ subject.Kind = "ActiveCurrencyAndAmount"
    /\ subject.V.Value = 0
    /\ subject.V.Currency = S_usd
    /\ Len(ret.Errs) = 2
    /\ ret.Errs[1].Field = <<"Value">>
    /\ ret.Errs[2].Field = <<"Ccy">>

\* the primitive constraints, and those of them that run a length check
\* followed by a pattern check
PrimitiveOps ==
    {"validateRequired", "validateStringLength", "validatePattern", "validateEnumeration",
     "validateCurrency", "validateCountryCode", "validateBIC", "validateIBAN",
     "validateLEI", "validateDate", "validateDateTime"}

\* the minimum and maximum length of the length check of a composite
CompositeLengths(name) ==
    CASE name = "validateCurrency" -> <<3, 3>>
      [] name = "validateCountryCode" -> <<2, 2>>
      [] name = "validateBIC" -> <<8, 11>>
      [] name = "validateIBAN" -> <<15, 34>>
      [] name = "validateLEI" -> <<20, 20>>

CompositeOps ==
    {"validateCurrency", "validateCountryCode", "validateBIC", "validateIBAN", "validateLEI"}

\* C26: every primitive constraint returns no violation or exactly one
\* violation whose Field is the field name it was called with, and a
\* constraint made of a length check and a pattern check reports the first
\* failing check only: the length violation when the length is out of range.
C26_ZeroOrOne ==
    op \in PrimitiveOps =>
        /\ \/ ret.IsNil /\ Len(ret.Errs) = 0
           \/ ~ret.IsNil /\ Len(ret.Errs) = 1 /\ ret.Errs[1].Field = <<passed>>
        /\ (/\ op \in CompositeOps
            /\ ~validateStringLength(subject.V, CompositeLengths(op)[1],
                                     CompositeLengths(op)[2], passed).IsNil)
           => ret = validateStringLength(subject.V, CompositeLengths(op)[1],
                                         CompositeLengths(op)[2], passed)

\* C26 witness: validateCountryCode was called with the field name "BICFI"
\* on a text of three lowercase letters, which fails the length check and
\* the pattern check, and returned the length violation alone.
C26_Witness ==
    /\ op = "validateCountryCode"
    /\ passed = "BICFI"
    /\ subject.V = S_usd
    /\ Len(ret.Errs) = 1
    /\ ret.Errs[1].Field = <<"BICFI">>
    /\ ret.Errs[1].Message = <<"length ", "3", " exceeds maximum ", "2">>

\* C27: no validation outcome is fatal: every call of a Validate method, on
\* trees with nil optional pointers, nil and empty slices and malformed
\* texts, returns nil or a violation list and does not panic; every
\* primitive returns nil or one ValidationError, so that the assertions
\* err.(ValidationError) of the callers hold; and validatePattern reports a
\* pattern that does not compile as a violation.
C27_NeverFatal ==
    /\ (op \in ValidateMethods \cup {"BusinessApplicationHeaderV02.Validate"}) =>
          /\ ret.Type \in {"nil", "ValidationErrors"}
          /\ ret.IsNil <=> ret.Type = "nil"
          /\ ~HasPanic(ret.Errs)
    /\ op \in PrimitiveOps =>
          /\ ret.Type \in {"nil", "ValidationError"}
          /\ ret.IsNil <=> ret.Type = "nil"
          /\ Len(ret.Errs) <= 1
    /\ (op = "validatePattern" /\ RegexpCompile(compiled[1]).Err # <<>>) =>
          /\ ret.Type = "ValidationError"
          /\ ret.Errs[1].Message[1] = "pattern validation failed: "

\* C27 witness: validatePattern was called with a pattern that does not
\* compile and returned the violation that says so.
C27_Witness ==
    /\ op = "validatePattern"
    /\ compiled = <<PatBroken>>
    /\ ret.Type = "ValidationError"
    /\ ret.Errs = <<VE(<<passed>>, <<"pattern validation failed: ", "error parsing regexp">>)>>

\* C28: the compiled form of every pattern is created once, at
\* initialization, and only read afterwards: no call of a validator
\* compiles a pattern, so that the number of compilations of each pattern
\* stays at the one of the initialization.
C28_CompiledOnce == compiled = <<>>

\* a nested structure of a parent: the parent's name for it and what its
\* Validate method returns (nil for a child the parent does not validate: an
\* optional one that is not set, a required one that is empty)
Child(name, err) == [Field |-> name, Err |-> err]

OptionalParty(p) ==
    IF IsNilPtr(p) THEN NilError ELSE PartyIdentification135_Validate(Deref(p))

OptionalAccount(p) == IF IsNilPtr(p) THEN NilError ELSE CashAccount38_Validate(Deref(p))

\* the nested structures of a business application header's parties
HeaderChildren(b) ==
    <<Child(<<"From">>, Party44_Validate(b.From)), Child(<<"To">>, Party44_Validate(b.To))>>

\* the nested structures the parent validated last has, with the names the
\* parent gives them
NestedChildren ==
    CASE op = "CreditTransferTransaction39.Validate" ->
            <<Child(<<"PaymentID">>, PaymentIdentification7_Validate(subject.V.PaymentID)),
              Child(<<"InterbankSettlementAmount">>,
                    ActiveCurrencyAndAmount_Validate(subject.V.InterbankSettlementAmount)),
              Child(<<"Debtor">>, PartyIdentification135_Validate(subject.V.Debtor)),
              Child(<<"DebtorAgent">>,
                    BranchAndFinancialInstitutionIdentification6_Validate(
                        subject.V.DebtorAgent)),
              Child(<<"Creditor">>, PartyIdentification135_Validate(subject.V.Creditor)),
              Child(<<"CreditorAgent">>,
                    BranchAndFinancialInstitutionIdentification6_Validate(
                        subject.V.CreditorAgent)),
              Child(<<"PaymentTypeInfo">>,
                    IF IsNilPtr(subject.V.PaymentTypeInfo) THEN NilError
                    ELSE PaymentTypeInfo28_Validate(Deref(subject.V.PaymentTypeInfo))),
              Child(<<"DebtorAccount">>, OptionalAccount(subject.V.DebtorAccount)),
              Child(<<"CreditorAccount">>, OptionalAccount(subject.V.CreditorAccount)),
              Child(<<"UltimateDebtor">>, OptionalParty(subject.V.UltimateDebtor)),
              Child(<<"UltimateCreditor">>, OptionalParty(subject.V.UltimateCreditor))>>
      [] op = "FIToFICustomerCreditTransferV08.Validate" ->
            <<Child(<<"GroupHeader">>,
                    GroupHeader93_Validate(subject.V.FICustomerCreditTransfer.GroupHeader))>>
            \o [i \in 1..Len(MessageTransactions) |->
                  Child(<<"CreditTransferTransactionInfo[", ToString(i - 1), "]">>,
                        CreditTransferTransaction39_Validate(MessageTransactions[i]))]
      [] op = "BusinessApplicationHeaderV02.Validate" ->
            HeaderChildren(subject.V)
            \o <<Child(<<"MarketPractice">>,
                       IF IsNilPtr(subject.V.MarketPractice) THEN NilError
                       ELSE ImplementationSpecification1_Validate(
                                Deref(subject.V.MarketPractice)))>>
            \o [i \in 1..Len(subject.V.Related.Elems) |->
                  Child(<<"Related[", ToString(i - 1), "]">>,
                        BusinessApplicationHeader5_Validate(subject.V.Related.Elems[i]))]
      [] op = "Choice.Validate" /\ subject.Kind = "AccountIdentification4" ->
            <<Child(<<"Other">>,
                    IF IsNilPtr(subject.V.Other) THEN NilError
                    ELSE GenericAccountIdentification1_Validate(Deref(subject.V.Other)))>>
      [] op = "Choice.Validate" /\ subject.Kind = "Party44" ->
            <<Child(<<"FinancialInstitutionID">>,
                    IF IsNilPtr(subject.V.FinancialInstitutionID) THEN NilError
                    ELSE BranchAndFinancialInstitutionIdentification6_Validate(
                             Deref(subject.V.FinancialInstitutionID))),
              Child(<<"OrganisationIdentification">>,
                    OptionalParty(subject.V.OrganisationIdentification))>>
      [] op = "Structure.Validate" /\ subject.Kind = "PartyIdentification135" ->
            <<Child(<<"PostalAddress">>,
                    IF IsNilPtr(subject.V.PostalAddress) THEN NilError
                    ELSE PostalAddress24_Validate(Deref(subject.V.PostalAddress))),
              Child(<<"ContactDetails">>,
                    IF IsNilPtr(subject.V.ContactDetails) THEN NilError
                    ELSE Contact4_Validate(Deref(subject.V.ContactDetails)))>>
      [] op = "Structure.Validate"
            /\ subject.Kind = "BranchAndFinancialInstitutionIdentification6" ->
            <<Child(<<"FinancialInstitutionID">>,
                    IF IsZero_FinancialInstitutionIdentification18(
                           subject.V.FinancialInstitutionID)
                    THEN NilError
                    ELSE FinancialInstitutionIdentification18_Validate(
                             subject.V.FinancialInstitutionID)),
              Child(<<"BranchID">>,
                    IF IsNilPtr(subject.V.BranchID) THEN NilError
                    ELSE BranchData3_Validate(Deref(subject.V.BranchID)))>>
      [] op = "Structure.Validate" /\ subject.Kind = "CashAccount38" ->
            <<Child(<<"ID">>, AccountIdentification4_Validate(subject.V.ID))>>
      [] OTHER -> <<>>

\* the number of checks the parent validated last makes itself: one for
\* each field it checks and each element of a list it ranges over
DirectChecks ==
    CASE op = "CreditTransferTransaction39.Validate" -> 12
      [] op = "FIToFICustomerCreditTransferV08.Validate" ->
            1 + (IF Len(MessageTransactions) = 0 THEN 1 ELSE Len(MessageTransactions))
      [] op = "BusinessApplicationHeaderV02.Validate" -> 8 + Len(subject.V.Related.Elems)
      [] op = "Choice.Validate" -> 3
      [] op = "Structure.Validate" /\ subject.Kind = "BranchAndFinancialInstitutionIdentification6" -> 2
      [] OTHER -> 3

\* C29: nested violations are collapsed one level at a time: when the
\* Validate method of a nested structure returns one or more violations, the
\* parent's list has exactly one violation for that child, whose Field is
\* the parent's name for the child and whose Message is the text Error()
\* gives for the child's list; a child without violations adds none beyond
\* the parent's own presence check, and the list is never longer than the
\* number of checks the parent makes itself.
C29_CollapsedOneLevel ==
    LET Collapsed(children) ==
            \A k \in 1..Len(children) :
                LET OneFor(child) ==
                        IF child.Err.IsNil
                        THEN \A v \in ViolationsOf(ret.Errs, child.Field) :
                                 v.Message = <<"is required but is empty">>
                        ELSE /\ ViolationsOf(ret.Errs, child.Field)
                                   = {VE(child.Field, ValidationErrors_Error(child.Err.Errs))}
                             /\ CountField(ret.Errs, child.Field) = 1
                IN  OneFor(children[k])
    IN  /\ Collapsed(NestedChildren)
        /\ Len(NestedChildren) > 0 => Len(ret.Errs) <= DirectChecks

\* C29 witness: a Party44 whose financial institution has two violations of
\* its own (in its FinancialInstitutionID and in its BranchID) and whose
\* organisation has one was validated, and the list has one violation for
\* each of the two children and the one of the choice.
C29_Witness ==
    /\ op = "Choice.Validate"
    /\ subject.Kind = "Party44"
    /\ ~IsNilPtr(subject.V.FinancialInstitutionID)
    /\ Len(BranchAndFinancialInstitutionIdentification6_Validate(
               Deref(subject.V.FinancialInstitutionID)).Errs) = 2
    /\ ~IsNilPtr(subject.V.OrganisationIdentification)
    /\ ~PartyIdentification135_Validate(Deref(subject.V.OrganisationIdentification)).IsNil
    /\ Len(ret.Errs) = 3
    /\ CountField(ret.Errs, <<"FinancialInstitutionID">>) = 1

\* C30: the length constraint counts characters: PartyIdentification135.Validate
\* reports no violation for a set Name exactly when the number of characters
\* of the Name lies in 1..140, also when the Name has characters of more than
\* one byte.
C30_CountsCharacters ==
    (/\ op = "Structure.Validate"
     /\ subject.Kind = "PartyIdentification135"
     /\ ~IsNilPtr(subject.V.Name))
        => (~HasField(ret.Errs, <<"Name">>)
                <=> (1 <= Len(Deref(subject.V.Name)) /\ Len(Deref(subject.V.Name)) <= 140))

====
